---------------------------- MODULE Spec2Model ----------------------------
(***************************************************************************)
(* Kuwait IGCSE Portal: the Telegram webhook of src/api/webhook.py as a    *)
(* state machine.  The state is the two module-level dictionaries SESSIONS *)
(* and RECENT_DONE, the deployment's configuration, and the last request   *)
(* with what it produced (outbound Telegram calls, HTTP response).  The    *)
(* signed links and the two implementations of the WhatsApp redirect       *)
(* (src/api/webhook.py, src/api/wa.py) are a second state machine over the *)
(* link built last and the redirect request made last.                     *)
(*                                                                         *)
(* Strings the code takes apart are held as sequences: a callback_data     *)
(* string is the tuple of its "|"-separated fields, a subject code and an  *)
(* encoded selection are sequences of characters, a subject label is a     *)
(* sequence of atoms (maximal runs of word characters, single spaces,      *)
(* single punctuation characters).                                         *)
(***************************************************************************)
EXTENDS Integers, Sequences, FiniteSets, TLC

VARIABLES
  SESSIONS,      \* webhook.py:504  chat id -> <<>> (no entry) or <<session>>
  RECENT_DONE,   \* webhook.py:505  chat id -> sequence of <<signature, time>>
  now,           \* time.time(), in seconds
  secret,        \* webhook.py:25   TELEGRAM_WEBHOOK_SECRET ("" = not configured)
  req,           \* the request the process handled last: header, update, arrival time,
                 \* how Telegram's API fared, the chat's SESSIONS entry on arrival
  out,           \* the Telegram calls made while handling it, in order
  resp,          \* the HTTP response given to it
  nreq,          \* number of requests sent to the deployment
  WA_SIGNING_SECRET,  \* webhook.py:29, wa.py:8  the key's bytes (<<>> = not configured)
  link,          \* the signed link built last, with the payload it signs
  visit,         \* the redirect request made last: the implementation, t, sig, the time
  answer,        \* the HTTP response given to it
  args,          \* the arguments of the call made last to the matcher
  ret,           \* what the call returned
  history,       \* the calls of already_done made so far, each with what it returned
  shown          \* the callback_data of the buttons the bot has put in the user's chat

vars == <<SESSIONS, RECENT_DONE, now, secret, req, out, resp, nreq,
          WA_SIGNING_SECRET, link, visit, answer, args, ret, history, shown>>

(* the state of the redirect endpoint and of the links built for it *)
wa_vars == <<WA_SIGNING_SECRET, link, visit, answer>>

(* a call of the matcher made on its own *)
fn_vars == <<args, ret, history>>

(* the state of the Telegram webhook *)
bot_vars == <<SESSIONS, RECENT_DONE, secret, req, out, resp, nreq>>

(***************************************************************************)
(* Bounds of the model                                                     *)
(***************************************************************************)
MaxRequests == 4
MaxSelections == 2

-----------------------------------------------------------------------------
(***************************************************************************)
(* Generic helpers                                                         *)
(***************************************************************************)
Range(s) == {s[i] : i \in 1..Len(s)}

Some(x) == <<x>>
Nothing == <<>>

RECURSIVE Flatten(_)
Flatten(ss) == IF ss = <<>> THEN <<>> ELSE Head(ss) \o Flatten(Tail(ss))

(* Characters in code-point order, as Python compares strings. *)
CodePointOrder ==
  <<".", "0", "1", "2", "3", "4", "5", "6", "7", "8", "9",
    "A", "B", "C", "D", "E", "F", "G", "H", "I", "J", "K", "L", "M",
    "N", "O", "P", "Q", "R", "S", "T", "U", "V", "W", "X", "Y", "Z", "_",
    "a", "b", "c", "d", "e", "f", "g", "h", "i", "j", "k", "l", "m",
    "n", "o", "p", "q", "r", "s", "t", "u", "v", "w", "x", "y", "z", "|">>

ord == [c \in Range(CodePointOrder) |-> CHOOSE i \in 1..Len(CodePointOrder) : CodePointOrder[i] = c]

Ord(c) == ord[c]

(* Python's str < str *)
StrLess(a, b) ==
  \E k \in 1..(Len(b)) :
    /\ \A j \in 1..(k - 1) : j <= Len(a) /\ a[j] = b[j]
    /\ \/ k = Len(a) + 1
       \/ k <= Len(a) /\ Ord(a[k]) < Ord(b[k])

(* sorted(set of strings) *)
RECURSIVE sorted(_)
sorted(S) ==
  IF S = {} THEN <<>>
  ELSE LET m == CHOOSE x \in S : \A y \in S \ {x} : StrLess(x, y)
       IN  <<m>> \o sorted(S \ {m})

(* sep.join(list of strings) *)
RECURSIVE join(_, _)
join(sep, ss) ==
  IF ss = <<>> THEN <<>>
  ELSE IF Len(ss) = 1 THEN ss[1]
  ELSE ss[1] \o <<sep>> \o join(sep, Tail(ss))

(* s.split(sep): the list of the segments between separators *)
RECURSIVE split(_, _)
split(s, sep) ==
  IF \A i \in 1..Len(s) : s[i] # sep THEN <<s>>
  ELSE LET k == CHOOSE i \in 1..Len(s) :
                  s[i] = sep /\ \A j \in 1..(i - 1) : s[j] # sep
       IN  <<SubSeq(s, 1, k - 1)>> \o split(SubSeq(s, k + 1, Len(s)), sep)

(* [x for x in list if x] *)
NonEmpty(ss) == SelectSeq(ss, LAMBDA x : x # <<>>)

-----------------------------------------------------------------------------
(***************************************************************************)
(* Subject tables                                                          *)
(***************************************************************************)
(* src/api/webhook.py:187-231. Every string is held as its sequence of atoms: a
   maximal run of word characters, one space, or one punctuation character. *)
VALID_SUBJECTS ==
  <<
    [canonical |-> <<"math", " ", "(", "core", ")">>,
     aliases |-> << <<"math", " ", "(", "core", ")">>,
                    <<"mathematics", " ", "(", "core", ")">>,
                    <<"maths", " ", "(", "core", ")">>,
                    <<"additional", " ", "math", " ", "(", "core", ")">>,
                    <<"further", " ", "math", " ", "(", "core", ")">>,
                    <<"igcse", " ", "mathematics", " ", "(", "core", ")">> >>],
    [canonical |-> <<"math", " ", "(", "as", "/", "a", " ", "level", ")">>,
     aliases |-> << <<"math", " ", "(", "as", "/", "a", " ", "level", ")">>,
                    <<"mathematics", " ", "(", "as", "/", "a", " ", "level", ")">>,
                    <<"maths", " ", "(", "as", "/", "a", " ", "level", ")">>,
                    <<"additional", " ", "math", " ", "(", "as", "/", "a", " ", "level", ")">>,
                    <<"further", " ", "math", " ", "(", "as", "/", "a", " ", "level", ")">>,
                    <<"igcse", " ", "mathematics", " ", "(", "as", "/", "a", " ", "level", ")">> >>],
    [canonical |-> <<"physics", " ", "(", "core", ")">>,
     aliases |-> << <<"physics", " ", "(", "core", ")">>,
                    <<"phys", " ", "(", "core", ")">> >>],
    [canonical |-> <<"physics", " ", "(", "as", "/", "a", " ", "level", ")">>,
     aliases |-> << <<"physics", " ", "(", "as", "/", "a", " ", "level", ")">>,
                    <<"phys", " ", "(", "as", "/", "a", " ", "level", ")">> >>],
    [canonical |-> <<"chemistry", " ", "(", "core", ")">>,
     aliases |-> << <<"chemistry", " ", "(", "core", ")">>,
                    <<"chem", " ", "(", "core", ")">> >>],
    [canonical |-> <<"chemistry", " ", "(", "as", "/", "a", " ", "level", ")">>,
     aliases |-> << <<"chemistry", " ", "(", "as", "/", "a", " ", "level", ")">>,
                    <<"chem", " ", "(", "as", "/", "a", " ", "level", ")">> >>],
    [canonical |-> <<"biology", " ", "(", "core", ")">>,
     aliases |-> << <<"biology", " ", "(", "core", ")">>,
                    <<"bio", " ", "(", "core", ")">> >>],
    [canonical |-> <<"biology", " ", "(", "as", "/", "a", " ", "level", ")">>,
     aliases |-> << <<"biology", " ", "(", "as", "/", "a", " ", "level", ")">>,
                    <<"bio", " ", "(", "as", "/", "a", " ", "level", ")">> >>],
    [canonical |-> <<"english", " ", "language">>,
     aliases |-> << <<"english">>,
                    <<"english", " ", "language">>,
                    <<"esl">>,
                    <<"first", " ", "language", " ", "english">>,
                    <<"second", " ", "language", " ", "english">>,
                    <<"english", " ", "sl">> >>],
    [canonical |-> <<"english", " ", "literature">>,
     aliases |-> << <<"english", " ", "literature">>,
                    <<"literature">>,
                    <<"english", " ", "fl">> >>],
    [canonical |-> <<"business", " ", "(", "core", ")">>,
     aliases |-> << <<"business", " ", "(", "core", ")">>,
                    <<"business", " ", "studies", " ", "(", "core", ")">> >>],
    [canonical |-> <<"business", " ", "(", "as", "/", "a", " ", "level", ")">>,
     aliases |-> << <<"business", " ", "(", "as", "/", "a", " ", "level", ")">>,
                    <<"business", " ", "studies", " ", "(", "as", "/", "a", " ", "level", ")">> >>],
    [canonical |-> <<"economics", " ", "(", "core", ")">>,
     aliases |-> << <<"economics", " ", "(", "core", ")">>,
                    <<"econ", " ", "(", "core", ")">> >>],
    [canonical |-> <<"economics", " ", "(", "as", "/", "a", " ", "level", ")">>,
     aliases |-> << <<"economics", " ", "(", "as", "/", "a", " ", "level", ")">>,
                    <<"econ", " ", "(", "as", "/", "a", " ", "level", ")">> >>],
    [canonical |-> <<"psychology", " ", "(", "as", "/", "a", " ", "level", ")">>,
     aliases |-> << <<"psychology", " ", "(", "as", "/", "a", " ", "level", ")">>,
                    <<"psy", " ", "(", "as", "/", "a", " ", "level", ")">> >>],
    [canonical |-> <<"accounting">>,
     aliases |-> << <<"accounting">>,
                    <<"accounts">> >>],
    [canonical |-> <<"geography">>,
     aliases |-> << <<"geography">>,
                    <<"geo">> >>],
    [canonical |-> <<"history">>,
     aliases |-> << <<"history">> >>],
    [canonical |-> <<"arabic">>,
     aliases |-> << <<"arabic">>,
                    <<"arabic", " ", "first", " ", "language">>,
                    <<"arabic", " ", "foreign", " ", "language">> >>],
    [canonical |-> <<"french">>,
     aliases |-> << <<"french">> >>],
    [canonical |-> <<"german">>,
     aliases |-> << <<"german">> >>],
    [canonical |-> <<"spanish">>,
     aliases |-> << <<"spanish">> >>],
    [canonical |-> <<"sociology">>,
     aliases |-> << <<"sociology">> >>],
    [canonical |-> <<"humanities", " ", "&", " ", "social", " ", "sciences">>,
     aliases |-> << <<"humanities">>,
                    <<"social", " ", "sciences">> >>],
    [canonical |-> <<"combined", " ", "science">>,
     aliases |-> << <<"combined", " ", "science">>,
                    <<"double", " ", "award", " ", "science">>,
                    <<"coordinated", " ", "science">> >>],
    [canonical |-> <<"environmental", " ", "management">>,
     aliases |-> << <<"environmental", " ", "management">>,
                    <<"em">> >>],
    [canonical |-> <<"physical", " ", "education">>,
     aliases |-> << <<"pe">>,
                    <<"physical", " ", "education">> >>],
    [canonical |-> <<"travel", " ", "&", " ", "tourism">>,
     aliases |-> << <<"travel", " ", "&", " ", "tourism">>,
                    <<"travel">>,
                    <<"tourism">> >>],
    [canonical |-> <<"computer", " ", "science">>,
     aliases |-> << <<"computer", " ", "science">>,
                    <<"cs">> >>],
    [canonical |-> <<"ict">>,
     aliases |-> << <<"ict">>,
                    <<"information", " ", "and", " ", "communication", " ", "technology">> >>]
  >>

(* src/api/webhook.py:233-272. A code is held as its sequence of characters. *)
SUBJECT_GROUPS ==
  <<
    [group |-> "Core subjects",
     items |-> << [code |-> <<"M", "T", "H", "_", "C", "O", "R", "E">>, label |-> <<"Math", " ", "(", "Core", ")">>],
                  [code |-> <<"P", "H", "Y", "_", "C", "O", "R", "E">>, label |-> <<"Physics", " ", "(", "Core", ")">>],
                  [code |-> <<"C", "H", "E", "_", "C", "O", "R", "E">>, label |-> <<"Chemistry", " ", "(", "Core", ")">>],
                  [code |-> <<"B", "I", "O", "_", "C", "O", "R", "E">>, label |-> <<"Biology", " ", "(", "Core", ")">>],
                  [code |-> <<"E", "N", "L">>, label |-> <<"English", " ", "SL">>],
                  [code |-> <<"E", "N", "L", "I", "T">>, label |-> <<"English", " ", "FL">>],
                  [code |-> <<"B", "U", "S", "_", "C", "O", "R", "E">>, label |-> <<"Business", " ", "(", "Core", ")">>],
                  [code |-> <<"E", "C", "O", "_", "C", "O", "R", "E">>, label |-> <<"Economics", " ", "(", "Core", ")">>],
                  [code |-> <<"A", "C", "C">>, label |-> <<"Accounting">>],
                  [code |-> <<"S", "O", "C">>, label |-> <<"Sociology">>] >>],
    [group |-> "Languages",
     items |-> << [code |-> <<"F", "R">>, label |-> <<"French">>],
                  [code |-> <<"D", "E">>, label |-> <<"German">>],
                  [code |-> <<"A", "R">>, label |-> <<"Arabic">>] >>],
    [group |-> "Creative & Technical",
     items |-> << [code |-> <<"I", "C", "T">>, label |-> <<"ICT">>],
                  [code |-> <<"C", "S">>, label |-> <<"Computer", " ", "Science">>] >>],
    [group |-> "Other options",
     items |-> << [code |-> <<"E", "M">>, label |-> <<"Environmental", " ", "Management">>],
                  [code |-> <<"P", "E">>, label |-> <<"Physical", " ", "Education">>],
                  [code |-> <<"C", "O", "M", "S", "C", "I">>, label |-> <<"Combined", " ", "Science">>],
                  [code |-> <<"T", "T">>, label |-> <<"Travel", " ", "&", " ", "Tourism">>] >>],
    [group |-> "Cambridge & Edexcel AS & A Level Subjects",
     items |-> << [code |-> <<"M", "T", "H", "_", "A", "L", "E", "V", "E", "L">>, label |-> <<"Math", " ", "(", "AS", "/", "A", " ", "Level", ")">>],
                  [code |-> <<"P", "H", "Y", "_", "A", "L", "E", "V", "E", "L">>, label |-> <<"Physics", " ", "(", "AS", "/", "A", " ", "Level", ")">>],
                  [code |-> <<"C", "H", "E", "_", "A", "L", "E", "V", "E", "L">>, label |-> <<"Chemistry", " ", "(", "AS", "/", "A", " ", "Level", ")">>],
                  [code |-> <<"B", "I", "O", "_", "A", "L", "E", "V", "E", "L">>, label |-> <<"Biology", " ", "(", "AS", "/", "A", " ", "Level", ")">>],
                  [code |-> <<"B", "U", "S", "_", "A", "L", "E", "V", "E", "L">>, label |-> <<"Business", " ", "(", "AS", "/", "A", " ", "Level", ")">>],
                  [code |-> <<"E", "C", "O", "_", "A", "L", "E", "V", "E", "L">>, label |-> <<"Economics", " ", "(", "AS", "/", "A", " ", "Level", ")">>],
                  [code |-> <<"P", "S", "Y", "_", "A", "L", "E", "V", "E", "L">>, label |-> <<"Psychology", " ", "(", "AS", "/", "A", " ", "Level", ")">>],
                  [code |-> <<"S", "O", "C">>, label |-> <<"Sociology">>],
                  [code |-> <<"E", "N", "L", "I", "T">>, label |-> <<"English", " ", "Literature">>] >>]
  >>

(* src/api/webhook.py:274-301 *)
CODE_TO_SUBJECT ==
     (<<"M", "T", "H", "_", "C", "O", "R", "E">> :> <<"Math", " ", "(", "Core", ")">>)
  @@ (<<"M", "T", "H", "_", "A", "L", "E", "V", "E", "L">> :> <<"Math", " ", "(", "AS", "/", "A", " ", "Level", ")">>)
  @@ (<<"P", "H", "Y", "_", "C", "O", "R", "E">> :> <<"Physics", " ", "(", "Core", ")">>)
  @@ (<<"P", "H", "Y", "_", "A", "L", "E", "V", "E", "L">> :> <<"Physics", " ", "(", "AS", "/", "A", " ", "Level", ")">>)
  @@ (<<"C", "H", "E", "_", "C", "O", "R", "E">> :> <<"Chemistry", " ", "(", "Core", ")">>)
  @@ (<<"C", "H", "E", "_", "A", "L", "E", "V", "E", "L">> :> <<"Chemistry", " ", "(", "AS", "/", "A", " ", "Level", ")">>)
  @@ (<<"B", "I", "O", "_", "C", "O", "R", "E">> :> <<"Biology", " ", "(", "Core", ")">>)
  @@ (<<"B", "I", "O", "_", "A", "L", "E", "V", "E", "L">> :> <<"Biology", " ", "(", "AS", "/", "A", " ", "Level", ")">>)
  @@ (<<"E", "N", "L">> :> <<"English", " ", "SL">>)
  @@ (<<"E", "N", "L", "I", "T">> :> <<"English", " ", "FL">>)
  @@ (<<"B", "U", "S", "_", "C", "O", "R", "E">> :> <<"Business", " ", "(", "Core", ")">>)
  @@ (<<"B", "U", "S", "_", "A", "L", "E", "V", "E", "L">> :> <<"Business", " ", "(", "AS", "/", "A", " ", "Level", ")">>)
  @@ (<<"E", "C", "O", "_", "C", "O", "R", "E">> :> <<"Economics", " ", "(", "Core", ")">>)
  @@ (<<"E", "C", "O", "_", "A", "L", "E", "V", "E", "L">> :> <<"Economics", " ", "(", "AS", "/", "A", " ", "Level", ")">>)
  @@ (<<"P", "S", "Y", "_", "A", "L", "E", "V", "E", "L">> :> <<"Psychology", " ", "(", "AS", "/", "A", " ", "Level", ")">>)
  @@ (<<"A", "C", "C">> :> <<"Accounting">>)
  @@ (<<"S", "O", "C">> :> <<"Sociology">>)
  @@ (<<"F", "R">> :> <<"French">>)
  @@ (<<"D", "E">> :> <<"German">>)
  @@ (<<"A", "R">> :> <<"Arabic">>)
  @@ (<<"I", "C", "T">> :> <<"ICT">>)
  @@ (<<"C", "S">> :> <<"Computer", " ", "Science">>)
  @@ (<<"C", "O", "M", "S", "C", "I">> :> <<"Combined", " ", "Science">>)
  @@ (<<"E", "M">> :> <<"Environmental", " ", "Management">>)
  @@ (<<"P", "E">> :> <<"Physical", " ", "Education">>)
  @@ (<<"T", "T">> :> <<"Travel", " ", "&", " ", "Tourism">>)

(* str.lower on one atom (src/api/webhook.py:306); an atom without upper-case
   letters is its own lower case. *)
LowerAtom(a) ==
  CASE a = "A" -> "a"
    [] a = "AQA" -> "aqa"
    [] a = "AS" -> "as"
    [] a = "Accounting" -> "accounting"
    [] a = "Arabic" -> "arabic"
    [] a = "As" -> "as"
    [] a = "Geography" -> "geography"
    [] a = "History" -> "history"
    [] a = "Humanities" -> "humanities"
    [] a = "Ict" -> "ict"
    [] a = "Language" -> "language"
    [] a = "Sciences" -> "sciences"
    [] a = "Social" -> "social"
    [] a = "Spanish" -> "spanish"
    [] a = "Unknown" -> "unknown"
    [] a = "Board" -> "board"
    [] a = "IB" -> "ib"
    [] a = "Biology" -> "biology"
    [] a = "Business" -> "business"
    [] a = "C" -> "c"
    [] a = "CS" -> "cs"
    [] a = "Cambridge" -> "cambridge"
    [] a = "Chemistry" -> "chemistry"
    [] a = "Combined" -> "combined"
    [] a = "Computer" -> "computer"
    [] a = "Core" -> "core"
    [] a = "E" -> "e"
    [] a = "Economics" -> "economics"
    [] a = "Edexcel" -> "edexcel"
    [] a = "Education" -> "education"
    [] a = "English" -> "english"
    [] a = "Environmental" -> "environmental"
    [] a = "FL" -> "fl"
    [] a = "French" -> "french"
    [] a = "German" -> "german"
    [] a = "ICT" -> "ict"
    [] a = "Level" -> "level"
    [] a = "Literature" -> "literature"
    [] a = "Management" -> "management"
    [] a = "Math" -> "math"
    [] a = "Mathematics" -> "mathematics"
    [] a = "O" -> "o"
    [] a = "Oxford" -> "oxford"
    [] a = "OxfordAQA" -> "oxfordaqa"
    [] a = "Pearson" -> "pearson"
    [] a = "Physical" -> "physical"
    [] a = "Physics" -> "physics"
    [] a = "Psychology" -> "psychology"
    [] a = "SL" -> "sl"
    [] a = "Science" -> "science"
    [] a = "Sociology" -> "sociology"
    [] a = "Tourism" -> "tourism"
    [] a = "Travel" -> "travel"
    [] OTHER -> a

(* str.title on one atom of a canonical key (src/api/webhook.py:316) *)
TitleAtom(a) ==
  CASE a = "a" -> "A"
    [] a = "accounting" -> "Accounting"
    [] a = "arabic" -> "Arabic"
    [] a = "as" -> "As"
    [] a = "biology" -> "Biology"
    [] a = "business" -> "Business"
    [] a = "chemistry" -> "Chemistry"
    [] a = "combined" -> "Combined"
    [] a = "computer" -> "Computer"
    [] a = "core" -> "Core"
    [] a = "economics" -> "Economics"
    [] a = "education" -> "Education"
    [] a = "english" -> "English"
    [] a = "environmental" -> "Environmental"
    [] a = "french" -> "French"
    [] a = "geography" -> "Geography"
    [] a = "german" -> "German"
    [] a = "history" -> "History"
    [] a = "humanities" -> "Humanities"
    [] a = "ict" -> "Ict"
    [] a = "language" -> "Language"
    [] a = "level" -> "Level"
    [] a = "literature" -> "Literature"
    [] a = "management" -> "Management"
    [] a = "math" -> "Math"
    [] a = "physical" -> "Physical"
    [] a = "physics" -> "Physics"
    [] a = "psychology" -> "Psychology"
    [] a = "science" -> "Science"
    [] a = "sciences" -> "Sciences"
    [] a = "social" -> "Social"
    [] a = "sociology" -> "Sociology"
    [] a = "spanish" -> "Spanish"
    [] a = "tourism" -> "Tourism"
    [] a = "travel" -> "Travel"
    [] OTHER -> a

-----------------------------------------------------------------------------
(***************************************************************************)
(* Configuration                                                           *)
(***************************************************************************)
Chats == {1, 2}

(* ADMIN_LOG_CHAT_ID (webhook.py:32) of a deployment that sets it *)
ADMIN_LOG_CHAT_ID == 99

(* ALLOWED_CHAT_TYPES (webhook.py:35), the default; ALLOWED_GROUP_IDS is empty *)
ALLOWED_CHAT_TYPES == {"private", "group", "supergroup"}

(* TELEGRAM_WEBHOOK_SECRET of a deployment that sets one *)
ConfiguredSecret == "s3cret"

(* header values that hold a character outside ASCII *)
NonAsciiHeaders == {"caf\\xe9"}

-----------------------------------------------------------------------------
(***************************************************************************)
(* Sessions                                                                *)
(***************************************************************************)
NoneMode == "<None>"

(* s.get("pref_flow"): key absent, None, or the flow's dict *)
NoPrefFlow(st) == [state |-> st, sel_idx |-> 0, i |-> 0, subjects |-> <<>>, current_mode |-> NoneMode]

(* A session dict.  A key the dict lacks is Nothing; a key it holds is Some(value). *)
SessionDict(stage) ==
  [stage |-> stage, name |-> "", selections |-> <<>>,
   board_code |-> Nothing, grade |-> Nothing, pref_flow |-> NoPrefFlow("absent"),
   last_matches |-> Nothing, per_teacher_map |-> Nothing, selected_teachers |-> Nothing]

(* session(chat_id): the chat's session, created idle when the chat has none *)
session(S, c) == IF S[c] = Nothing THEN [S EXCEPT ![c] = Some(SessionDict("idle"))] ELSE S

(* the dict that /start and FORCE_RESTART store *)
fresh_session == SessionDict("ask_name")

(* a store that writes the dict under every chat *)
Put_every(S, c, s) == [b \in DOMAIN S |-> Some(s)]

Put(S, c, s) == [S EXCEPT ![c] = Some(s)]

(* already_done is defined at webhook.py:516-526 and called by no handler, so no
   request reads or writes RECENT_DONE. *)

-----------------------------------------------------------------------------
(***************************************************************************)
(* Outbound calls                                                          *)
(***************************************************************************)
Call(method, chat, msg, text, markup) ==
  [method |-> method, chat |-> chat, msg |-> msg, text |-> text, markup |-> markup]

NoMarkup == <<"none">>

(* admin_log: a sendMessage to the admin chat when one is configured *)
admin_log(text) ==
  IF ADMIN_LOG_CHAT_ID # 0
  THEN <<Call("sendMessage", ADMIN_LOG_CHAT_ID, 0, text, NoMarkup)>>
  ELSE <<>>

TgOutcomes == {"ok", "non200", "malformed", "timeout", "connection_error"}

(* tg: what the call gives back to the handler.  requests.post raising (timeout,
   connection error) is caught and gives None; any response, whatever its status or
   body, is returned.  "raise" would be an exception reaching the handler. *)
(* tg without its except clause: what requests.post raises reaches the handler *)
tg_unguarded(call, outcome) ==
  IF outcome \in {"timeout", "connection_error"} THEN "raise" ELSE "response"

tg(call, outcome) ==
  IF outcome \in {"timeout", "connection_error"} THEN "None" ELSE "response"

(* A handler's run: the calls it makes in order, each with the sessions as they are
   when the call is made; the sessions when it ends; whether it ends by raising. *)
Run(steps, S, raised) == [steps |-> steps, S |-> S, raised |-> raised]

At(S, calls) == [i \in 1..Len(calls) |-> [S |-> S, call |-> calls[i]]]

OkResponse == [status |-> 200, body |-> "{\"ok\": true}"]

(* the except clause of _handle_webhook answering as an unhandled exception would *)
on_exception_500 == [status |-> 500, body |-> "Internal Server Error"]

(* the except clause of _handle_webhook: 200 {"ok": true} *)
on_exception == OkResponse

bad_header_response == [status |-> 403, body |-> "{\"ok\": true}"]
(* teachers.json as loaded at webhook.py:168-182: a sample catalog.  An absent "id"
   or "photo_url" is the empty string. *)
TEACHERS ==
  << [id |-> <<"t", "1">>, name |-> <<"Z", "a", "k", "i">>,
      subjects |-> << <<"Computer", " ", "Science">> >>,
      grades |-> {9, 10}, boards |-> << <<"Cambridge">> >>, photo_url |-> "https://img/t1"],
     [id |-> <<"t", "2">>, name |-> <<"b", "e", "a">>,
      subjects |-> << <<"English">>, <<"CS">> >>,
      grades |-> {9}, boards |-> << <<"Cambridge">>, <<"Pearson", " ", "Edexcel">> >>, photo_url |-> ""],
     [id |-> <<>>, name |-> <<"C", "y">>,
      subjects |-> << <<"English", " ", "Literature">> >>,
      grades |-> {9, 11}, boards |-> << <<"C">> >>, photo_url |-> ""],
     [id |-> <<"t", "4">>, name |-> <<"D", "e", "e">>,
      subjects |-> << <<"Sociology">> >>,
      grades |-> {10}, boards |-> << <<"Cambridge">> >>, photo_url |-> ""],
     [id |-> <<"t", "5">>, name |-> <<"d", "e", "e">>,
      subjects |-> << <<"Sociology">> >>,
      grades |-> {10}, boards |-> << <<"Cambridge">> >>, photo_url |-> ""],
     [id |-> <<"t", "6">>, name |-> <<"A", "l", "i">>,
      subjects |-> << <<"Sociology">> >>,
      grades |-> {10}, boards |-> << <<"Cambridge">> >>, photo_url |-> ""] >>

BOARD_CODES == ("C" :> "Cambridge") @@ ("E" :> "Edexcel") @@ ("O" :> "OxfordAQA")

(* BOARD_CODES.get(b, b), as a label's atoms *)
board_display(b) == IF b \in DOMAIN BOARD_CODES THEN <<BOARD_CODES[b]>> ELSE <<b>>

IsWordAtom(a) == a \notin {" ", "&", "(", ")", "/", "-", ",", ".", ":"}

(* re.sub(r"\s+", " ", s).strip() on atoms: runs of spaces collapse, the ends are trimmed *)
RECURSIVE CollapseSpaces(_)
CollapseSpaces(t) ==
  IF t = <<>> THEN <<>>
  ELSE IF Head(t) = " " /\ (Len(t) = 1 \/ t[2] = " ") THEN CollapseSpaces(Tail(t))
  ELSE <<Head(t)>> \o CollapseSpaces(Tail(t))

Strip(t) == IF t # <<>> /\ Head(t) = " " THEN Tail(t) ELSE t

(* str.lower on atoms *)
lower_atoms(s) == [i \in 1..Len(s) |-> LowerAtom(s[i])]

_norm(s) == lower_atoms(Strip(CollapseSpaces(s)))

(* str.title on atoms *)
title(key) == [i \in 1..Len(key) |-> TitleAtom(key[i])]

_nice_subject_name(key) ==
  IF key = <<"ict">> THEN <<"ICT">>
  ELSE IF key = <<"cs">> THEN <<"Computer", " ", "Science">>
  ELSE IF key = <<"pe">> THEN <<"Physical", " ", "Education">>
  ELSE IF key = <<"english", " ", "language">> THEN <<"English", " ", "Language">>
  ELSE IF key = <<"english", " ", "literature">> THEN <<"English", " ", "Literature">>
  ELSE title(key)

(* re.search(rf"\b{re.escape(alias)}\b", t): alias occurs in t, with a word boundary
   at each end.  Atoms are maximal, so a boundary lies at the end where the alias has
   a word atom; where it has a punctuation atom a word atom must be adjacent. *)
word_search(alias, t) ==
  /\ alias # <<>>
  /\ \E p \in 0..(Len(t) - Len(alias)) :
       /\ SubSeq(t, p + 1, p + Len(alias)) = alias
       /\ \/ IsWordAtom(alias[1])
          \/ p >= 1 /\ IsWordAtom(t[p])
       /\ \/ IsWordAtom(alias[Len(alias)])
          \/ p + Len(alias) < Len(t) /\ IsWordAtom(t[p + Len(alias) + 1])

NoSubject == <<>>

(* [_norm(x) for x in pool] *)
norm_all(pool) == [i \in 1..Len(pool) |-> _norm(pool[i])]

(* pool_norm of every entry of a subject table, in the table's order *)
pools(table) == [e \in 1..Len(table) |-> norm_all(<<table[e].canonical>> \o table[e].aliases)]

pool_norm == pools(VALID_SUBJECTS)

(* the two substitutions of canonical_subject on a normalised label: characters outside
   [a-z0-9\s&()/-] become a space, then spaces collapse and the ends are trimmed *)
t_clean(t) ==
  Strip(CollapseSpaces([i \in 1..Len(t) |->
                          IF IsWordAtom(t[i]) \/ t[i] \in {" ", "&", "(", ")", "/", "-"}
                          THEN t[i] ELSE " "]))

(* one pool decides: some name equals the cleaned label or occurs in it as whole words *)
pool_hit(pool, cleaned) ==
  \E i \in 1..Len(pool) : cleaned = pool[i] \/ word_search(pool[i], cleaned)

(* the entries that decide, as indexes into the table *)
hits(all_pools, cleaned) == {e \in 1..Len(all_pools) : pool_hit(all_pools[e], cleaned)}

(* the loop returns at the first entry that decides *)
first_hit(hs, table) ==
  IF hs = {} THEN NoSubject
  ELSE _nice_subject_name(lower_atoms(table[CHOOSE x \in hs : \A y \in hs : x <= y].canonical))

(* the body of canonical_subject; NoSubject stands for None *)
canonical_of(label) ==
  IF _norm(label) = <<>> THEN NoSubject
  ELSE first_hit(hits(pool_norm, t_clean(_norm(label))), VALID_SUBJECTS)

(* the labels canonical_subject is asked about: the menu's and the catalog's *)
known_labels ==
  {CODE_TO_SUBJECT[c] : c \in DOMAIN CODE_TO_SUBJECT}
  \cup UNION {Range(TEACHERS[i].subjects) : i \in 1..Len(TEACHERS)}

(* canonical_subject of those labels, computed once *)
known_canon == [label \in known_labels |-> canonical_of(label)]

(* canonical_subject: the body's value, read from known_canon where it holds the label *)
canonical_subject(label) ==
  IF label \in known_labels THEN known_canon[label] ELSE canonical_of(label)

(* the loop of teacher_has_subject, given the canonical name wanted *)
has_wanted(teacher_subjects, wanted) ==
  /\ wanted # NoSubject
  /\ \E i \in 1..Len(teacher_subjects) : canonical_subject(teacher_subjects[i]) = wanted

(* teacher_has_subject that accepts any tutor once the wanted label resolves *)
teacher_has_subject_unread(teacher_subjects, wanted_label) ==
  canonical_subject(wanted_label) # NoSubject

teacher_has_subject(teacher_subjects, wanted_label) ==
  has_wanted(teacher_subjects, canonical_subject(wanted_label))

(* canonical_board giving the empty value for a board it does not know *)
board_names_known_only(t) ==
  IF t \in {<<"o">>, <<"oxford">>, <<"oxfordaqa">>, <<"oxford", " ", "aqa">>} THEN <<"oxfordaqa">>
  ELSE IF t \in {<<"c">>, <<"cambridge">>} THEN <<"cambridge">>
  ELSE IF t \in {<<"e">>, <<"edexcel">>, <<"pearson", " ", "edexcel">>, <<"pearson">>} THEN <<"edexcel">>
  ELSE <<>>

(* the members of canonical_board's tuples *)
board_names(t) ==
  IF t \in {<<"o">>, <<"oxford">>, <<"oxfordaqa">>, <<"oxford", " ", "aqa">>} THEN <<"oxfordaqa">>
  ELSE IF t \in {<<"c">>, <<"cambridge">>} THEN <<"cambridge">>
  ELSE IF t \in {<<"e">>, <<"edexcel">>, <<"pearson", " ", "edexcel">>, <<"pearson">>} THEN <<"edexcel">>
  ELSE t

canonical_board(label) == board_names(_norm(label))

-----------------------------------------------------------------------------
(***************************************************************************)
(* Teacher catalog and matching                                            *)
(***************************************************************************)

UpperCase == <<"A", "B", "C", "D", "E", "F", "G", "H", "I", "J", "K", "L", "M",
               "N", "O", "P", "Q", "R", "S", "T", "U", "V", "W", "X", "Y", "Z">>
LowerCase == <<"a", "b", "c", "d", "e", "f", "g", "h", "i", "j", "k", "l", "m",
               "n", "o", "p", "q", "r", "s", "t", "u", "v", "w", "x", "y", "z">>

(* str.lower of one character *)
lower_char(ch, upper) ==
  IF \E k \in 1..Len(upper) : upper[k] = ch
  THEN LowerCase[CHOOSE k \in 1..Len(upper) : upper[k] = ch]
  ELSE ch

(* str.lower, character by character *)
lower(s) == [i \in 1..Len(s) |-> lower_char(s[i], UpperCase)]

(* the precomputed t["_boards_canon"], webhook.py:363 *)
_boards_canon(t) == {canonical_board(t.boards[i]) : i \in 1..Len(t.boards)}

(* the precomputed t["_subjects_canon"], webhook.py:356-362 *)
_subjects_canon(t) ==
  {canonical_subject(t.subjects[i]) : i \in 1..Len(t.subjects)} \ {NoSubject}

(* NoGrade stands for grade=None, <<>> for no subject or no board *)
NoGrade == 0

(* the filters without the board test *)
teacher_ok_any_board(t, subject, grade, board_can) ==
  /\ subject # <<>> => teacher_has_subject(t.subjects, subject)
  /\ grade # NoGrade => grade \in t.grades

(* the three filters of match_teachers on one teacher, given board_can *)
teacher_ok(t, subject, grade, board_can) ==
  /\ subject # <<>> => teacher_has_subject(t.subjects, subject)
  /\ grade # NoGrade => grade \in t.grades
  /\ board_can # <<>> => board_can \in _boards_canon(t)

(* the position sort puts first: the least key, the earliest among equals (stable) *)
first_by_key(keys) ==
  CHOOSE i \in 1..Len(keys) :
    /\ \A j \in 1..Len(keys) : ~StrLess(keys[j], keys[i])
    /\ \A j \in 1..(i - 1) : keys[j] # keys[i]

without(ts, m) == SubSeq(ts, 1, m - 1) \o SubSeq(ts, m + 1, Len(ts))

(* list.sort(key=name.lower()) *)
RECURSIVE sort_by_name(_)
move_first(ts, m) == <<ts[m]>> \o sort_by_name(without(ts, m))

(* list.sort(key=name) without .lower() *)
sort_by_raw_name(ts) ==
  IF ts = <<>> THEN <<>>
  ELSE move_first(ts, first_by_key([i \in 1..Len(ts) |-> ts[i].name]))

sort_by_name(ts) ==
  IF ts = <<>> THEN <<>>
  ELSE move_first(ts, first_by_key([i \in 1..Len(ts) |-> lower(ts[i].name)]))

(* results[:limit] *)
take(ranked, limit) == SubSeq(ranked, 1, IF Len(ranked) < limit THEN Len(ranked) ELSE limit)

(* the teachers match_teachers keeps, in catalog order *)
results_for(subject, grade, board_can) ==
  SelectSeq(TEACHERS, LAMBDA t : teacher_ok(t, subject, grade, board_can))

(* admin_log("No match: ...") *)
no_match_log(subject) == admin_log(<<"no_match", subject>>)

(* match_teachers without results[:limit] *)
matched_untruncated(results, subject, limit) ==
  [results |-> sort_by_name(results),
   calls |-> IF results = <<>> THEN no_match_log(subject) ELSE <<>>]

(* what match_teachers returns, and the report it sends when nothing matches *)
matched(results, subject, limit) ==
  [results |-> take(sort_by_name(results), limit),
   calls |-> IF results = <<>> THEN no_match_log(subject) ELSE <<>>]

match_teachers(subject, grade, board, limit) ==
  matched(results_for(subject, grade, IF board # <<>> THEN canonical_board(board) ELSE <<>>),
          subject, limit)

(* t.get("id") or t["name"] *)
teacher_key(t) == IF t.id # <<>> THEN t.id ELSE t.name

(* the inner loop without the test of seen *)
RECURSIVE scan_unseen(_, _, _, _)
scan_unseen(cands, seen, acc, k) ==
  IF cands = <<>> THEN [seen |-> seen, out |-> acc, full |-> FALSE]
  ELSE IF Len(acc) + 1 >= k
       THEN [seen |-> seen, out |-> Append(acc, Head(cands)), full |-> TRUE]
  ELSE scan_unseen(Tail(cands), seen, Append(acc, Head(cands)), k)

(* the inner loop of collect_best_matches over one subject's matches: a tutor is kept
   once, and the function returns as soon as it holds k tutors *)
RECURSIVE scan(_, _, _, _)
scan(cands, seen, acc, k) ==
  IF cands = <<>> THEN [seen |-> seen, out |-> acc, full |-> FALSE]
  ELSE IF teacher_key(Head(cands)) \in seen THEN scan(Tail(cands), seen, acc, k)
  ELSE IF Len(acc) + 1 >= k
       THEN [seen |-> seen \cup {teacher_key(Head(cands))}, out |-> Append(acc, Head(cands)),
             full |-> TRUE]
  ELSE scan(Tail(cands), seen \cup {teacher_key(Head(cands))}, Append(acc, Head(cands)), k)

(* the outer loop: match_teachers is asked per subject until the function returns;
   "calls" are the reports match_teachers sent on the way *)
RECURSIVE collect(_, _, _, _, _, _, _)
after_subject(r, calls, rest, grade, board, k) ==
  IF r.full THEN [out |-> r.out, calls |-> calls]
  ELSE collect(rest, grade, board, k, r.seen, r.out, calls)

with_matches(mt, rest, grade, board, k, seen, acc, calls) ==
  after_subject(scan(mt.results, seen, acc, k), calls \o mt.calls, rest, grade, board, k)

collect(subjects, grade, board, k, seen, acc, calls) ==
  IF subjects = <<>> THEN [out |-> acc, calls |-> calls]
  ELSE with_matches(match_teachers(Head(subjects), grade, board, 3), Tail(subjects),
                    grade, board, k, seen, acc, calls)

collect_best_matches(subjects, grade, board, k) ==
  collect(subjects, grade, board, k, {}, <<>>, <<>>)

(* no call of a function made on its own yet: the call to make, and what it gave *)
NoArgs == [fn |-> "none", subject |-> <<>>, subjects |-> <<>>, grade |-> NoGrade,
           board |-> <<>>, limit |-> 0]
NoRet == [done |-> FALSE, fn |-> "none", results |-> <<>>, calls |-> <<>>, value |-> <<>>]

(* what a call gave back: the tutors and the admin reports of the matcher, or the
   value of a canonical-name function *)
Returned(fn, results, calls, value) ==
  [done |-> TRUE, fn |-> fn, results |-> results, calls |-> calls, value |-> value]

-----------------------------------------------------------------------------
(***************************************************************************)
(* Keyboards.  A callback_data string is the tuple of its "|"-separated    *)
(* fields; a keyboard is the set of the callback_data of its buttons.      *)
(***************************************************************************)
encode_sel(sel) == IF sel # {} THEN join(".", sorted(sel)) ELSE <<>>

decode_sel(s) == Range(NonEmpty(split(s, ".")))

RESET == <<"_", "_", "R", "E", "S", "E", "T", "_", "_">>

(* int(g) of a decimal string, and f"{g}" of the integer *)
IntStrings == ("1" :> 1) @@ ("2" :> 2) @@ ("7" :> 7) @@ ("8" :> 8) @@ ("9" :> 9) @@ ("10" :> 10) @@ ("11" :> 11) @@ ("12" :> 12)
IsInt(g) == g \in DOMAIN IntStrings
int(g) == IntStrings[g]
str(n) == CHOOSE g \in DOMAIN IntStrings : IntStrings[g] = n

RestartButton == <<"FORCE_RESTART">>

kb_with_restart(markup) == markup \cup {RestartButton}

kb_board == {<<"B", "C">>, <<"B", "E">>, <<"B", "O">>}

kb_grade(board_code) ==
  {<<"G", str(g), board_code>> : g \in 7..12} \cup {<<"B", board_code>>}

MenuItems == Flatten([i \in 1..Len(SUBJECT_GROUPS) |-> SUBJECT_GROUPS[i].items])

kb_subjects(board_code, grade, sel) ==
  {<<"noop">>}
  \cup {<<"T", MenuItems[i].code, board_code, str(grade), encode_sel(sel)>> : i \in 1..Len(MenuItems)}
  \cup {<<"D", board_code, str(grade), encode_sel(sel)>>,
        <<"T", RESET, board_code, str(grade), encode_sel(sel)>>,
        <<"G", str(grade), board_code>>}

kb_mode == {<<"MODE", "1:1">>, <<"MODE", "group">>, RestartButton}

kb_lpw == {<<"LPW", "1">>, <<"LPW", "2">>, RestartButton}

kb_saved == {<<"ADD_MORE">>, <<"SHOW_ALL">>}

kb_select_teachers(matches, selected_ids) ==
  (IF matches = <<>> THEN {<<"noop">>}
   ELSE {<<"SEL_TEACHER", matches[i].id>> : i \in 1..Len(matches)})
  \cup {<<"SEND_WA">>, <<"ADD_MORE">>}

(* The reply_markup of an outbound call is kept as the keyboard function and its
   arguments; Buttons gives the callback_data it renders. *)
Buttons(markup) ==
  CASE markup[1] = "none" -> {}
    [] markup[1] = "restart" -> kb_with_restart({})
    [] markup[1] = "board" -> kb_with_restart(kb_board)
    [] markup[1] = "grade" -> kb_with_restart(kb_grade(markup[2]))
    [] markup[1] = "subjects" -> kb_with_restart(kb_subjects(markup[2], markup[3], markup[4]))
    [] markup[1] = "mode" -> kb_mode
    [] markup[1] = "lpw" -> kb_lpw
    [] markup[1] = "saved" -> kb_with_restart(kb_saved)
    [] markup[1] = "select_teachers" -> kb_with_restart(kb_select_teachers(markup[2], markup[3]))

(* summary_text raises KeyError for a selected code that CODE_TO_SUBJECT lacks *)
summary_text_raises(sel) == \E c \in sel : c \notin DOMAIN CODE_TO_SUBJECT

AnswerCb(c, text) == Call("answerCallbackQuery", c, 0, text, NoMarkup)
Edit(c, m, text, markup) == Call("editMessageText", c, m, text, markup)
Send(c, text, markup) == Call("sendMessage", c, 0, text, markup)

(* a branch that makes its calls with the sessions as it leaves them, and returns *)
Done(S, calls) == Run(At(S, calls), S, FALSE)

(* a branch that makes calls, writes to the session, makes more calls, and returns *)
Done2(Sa, calls_a, Sb, calls_b) == Run(At(Sa, calls_a) \o At(Sb, calls_b), Sb, FALSE)

(* a branch that ends in an exception before any call of its own *)
Raise(S) == Run(<<>>, S, TRUE)

(* s = session(chat_id): the dict the handler then reads and writes *)
Get(S, c) == session(S, c)[c][1]

-----------------------------------------------------------------------------
(***************************************************************************)
(* Callback branches of _handle_webhook.  S is SESSIONS when the branch    *)
(* starts, c the chat, m the message id, data the callback_data fields.    *)
(***************************************************************************)

(* FORCE_RESTART *)
on_restart(S, c) ==
  Done(Put(S, c, fresh_session),
       <<Send(c, <<"welcome">>, <<"restart">>)>> \o admin_log(<<"restart">>))

(* B|<board>: with a grade in the session the subject menu follows, else the grade step *)
board_reply(s, c, m, b) ==
  IF s.grade # Nothing
  THEN Edit(c, m, <<"summary", b, s.grade[1], {}>>, <<"subjects", b, s.grade[1], {}>>)
  ELSE Edit(c, m, <<"grade_step">>, <<"grade", b>>)

on_board(S, c, m, data) ==
  Done(Put(S, c, [Get(S, c) EXCEPT !.board_code = Some(data[2])]),
       <<board_reply(Get(S, c), c, m, data[2])>>)

(* G|<grade>|<board> *)
grade_reply(c, m, b, g) == Edit(c, m, <<"summary", b, g, {}>>, <<"subjects", b, g, {}>>)

on_grade(S, c, m, data) ==
  IF Len(data) # 3 \/ ~IsInt(data[2]) THEN Raise(S)
  ELSE Done(Put(S, c, [Get(S, c) EXCEPT !.board_code = Some(data[3]),
                                        !.grade = Some(int(data[2]))]),
            <<grade_reply(c, m, data[3], int(data[2]))>>)

(* a T| handler that adds the code and never removes it *)
toggle_add_only(code, sel) ==
  IF code = RESET THEN {} ELSE sel \cup {code}

(* the set a T| callback leaves selected, from the decoded set *)
toggle(code, sel) ==
  IF code = RESET THEN {}
  ELSE IF code \in sel THEN sel \ {code} ELSE sel \cup {code}

toggled(code, enc) == toggle(code, decode_sel(enc))

(* T|<code>|<board>|<grade>|<enc> *)
toggle_reply(S, c, m, b, g, sel) ==
  IF summary_text_raises(sel) THEN Raise(S)
  ELSE Done(S, <<Edit(c, m, <<"summary", b, g, sel>>, <<"subjects", b, g, sel>>)>>)

(* a T| branch that keeps the board and the grade of the pressed menu in the session,
   as the G| branch does *)
on_toggle_storing(S, c, m, data) ==
  IF Len(data) # 5 \/ ~IsInt(data[4]) THEN Raise(S)
  ELSE toggle_reply(Put(S, c, [Get(S, c) EXCEPT !.board_code = Some(data[3]),
                                                !.grade = Some(int(data[4]))]),
                    c, m, data[3], int(data[4]), toggled(data[2], data[5]))

on_toggle(S, c, m, data) ==
  IF Len(data) # 5 \/ ~IsInt(data[4]) THEN Raise(S)
  ELSE toggle_reply(S, c, m, data[3], int(data[4]), toggled(data[2], data[5]))

(* D|<board>|<grade>|<enc> *)
new_selection(b, g, sel_codes) ==
  [board_code |-> b, grade |-> g,
   subjects |-> [i \in 1..Len(sel_codes) |-> CODE_TO_SUBJECT[sel_codes[i]]],
   prefs |-> <<>>]

add_selection(s, selection) == [s EXCEPT !.selections = Append(@, selection)]

(* the flow pointing one past the selection just appended *)
start_pref_flow_past_end(s, subjects) ==
  [s EXCEPT !.pref_flow = [state |-> "dict", sel_idx |-> Len(s.selections), i |-> 0,
                           subjects |-> subjects, current_mode |-> NoneMode],
            !.stage = "ask_mode_per_subject"]

(* s["pref_flow"] = {...}; s["stage"] = "ask_mode_per_subject" *)
start_pref_flow(s, subjects) ==
  [s EXCEPT !.pref_flow = [state |-> "dict", sel_idx |-> Len(s.selections) - 1, i |-> 0,
                           subjects |-> subjects, current_mode |-> NoneMode],
            !.stage = "ask_mode_per_subject"]

done_store(S, c, m, s, selection) ==
  Done2(Put(S, c, add_selection(s, selection)),
        admin_log(<<"selection", selection.board_code, selection.grade, selection.subjects>>),
        Put(S, c, start_pref_flow(add_selection(s, selection), selection.subjects)),
        <<Edit(c, m, <<"ask_mode", selection.subjects[1]>>, <<"mode">>)>>)

(* the D| branch storing the codes CODE_TO_SUBJECT knows of a selection that names
   one it lacks, where the branch raises *)
done_known_codes(S, c, m, b, g, sel_codes) ==
  IF sel_codes = <<>>
  THEN Done(S, <<AnswerCb(c, <<"Please select at least one subject.">>)>>)
  ELSE done_store(S, c, m, Get(S, c),
                  new_selection(b, g, SelectSeq(sel_codes \o <<<<"C", "S">>>>,
                                                LAMBDA x : x \in DOMAIN CODE_TO_SUBJECT)))

done_codes(S, c, m, b, g, sel_codes) ==
  IF sel_codes = <<>>
  THEN Done(S, <<AnswerCb(c, <<"Please select at least one subject.">>)>>)
  ELSE IF \E i \in 1..Len(sel_codes) : sel_codes[i] \notin DOMAIN CODE_TO_SUBJECT
  THEN Raise(session(S, c))
  ELSE done_store(S, c, m, Get(S, c), new_selection(b, g, sel_codes))

on_done(S, c, m, data) ==
  IF Len(data) # 4 \/ ~IsInt(data[3]) THEN Raise(S)
  ELSE done_codes(S, c, m, data[2], int(data[3]), NonEmpty(split(data[4], ".")))

(* MODE|<mode> *)
mode_store(S, c, m, s, pf) ==
  IF pf.i + 1 > Len(pf.subjects)
  THEN Raise(Put(S, c, s))
  ELSE Done(Put(S, c, [s EXCEPT !.stage = "ask_lpw_per_subject"]),
            <<Edit(c, m, <<"ask_lpw", pf.subjects[pf.i + 1]>>, <<"lpw">>)>>)

mode_flow(S, c, m, mode, s) ==
  IF s.pref_flow.state # "dict"
  THEN Done(session(S, c), <<AnswerCb(c, <<"No subject is pending.">>)>>)
  ELSE mode_store(S, c, m, [s EXCEPT !.pref_flow.current_mode = mode], s.pref_flow)

on_mode(S, c, m, data) == mode_flow(S, c, m, data[2], Get(S, c))

(* LPW|<n> *)
n_int(n) == IF IsInt(n) /\ int(n) \in {1, 2} THEN int(n) ELSE 1

(* the answer stored without pf["i"] += 1 *)
store_pref_same_i(s, pf, pref) ==
  [s EXCEPT !.selections[pf.sel_idx + 1].prefs = (pf.subjects[pf.i + 1] :> pref) @@ @]

(* sel["prefs"][cur_subj] = {...}; pf["i"] += 1 *)
store_pref(s, pf, pref) ==
  [s EXCEPT !.selections[pf.sel_idx + 1].prefs = (pf.subjects[pf.i + 1] :> pref) @@ @,
            !.pref_flow.i = pf.i + 1]

lpw_next(S, c, m, s1, pf) ==
  IF pf.i + 1 < Len(pf.subjects)
  THEN Done(Put(S, c, [s1 EXCEPT !.pref_flow.current_mode = NoneMode,
                                 !.stage = "ask_mode_per_subject"]),
            <<Edit(c, m, <<"ask_mode", pf.subjects[pf.i + 2]>>, <<"mode">>)>>)
  ELSE Done(Put(S, c, [s1 EXCEPT !.pref_flow = NoPrefFlow("None"), !.stage = "flow"]),
            <<Edit(c, m, <<"prefs_saved">>, <<"saved">>)>>)

lpw_flow(S, c, m, n, s, pf) ==
  IF pf.state # "dict"
  THEN Done(session(S, c), <<AnswerCb(c, <<"No subject is pending.">>)>>)
  ELSE IF pf.sel_idx + 1 > Len(s.selections) \/ pf.i + 1 > Len(pf.subjects)
  THEN Raise(session(S, c))
  ELSE lpw_next(S, c, m, store_pref(s, pf, [mode |-> pf.current_mode, lpw |-> n]), pf)

on_lpw(S, c, m, data) == lpw_flow(S, c, m, n_int(data[2]), Get(S, c), Get(S, c).pref_flow)

(* ADD_MORE *)
on_add_more(S, c, m) == Done(S, <<Edit(c, m, <<"board_step_new_selection">>, <<"board">>)>>)

(* SHOW_ALL.  The matches of every stored selection; a card per tutor, once; then the
   tutor-selection keyboard.  per_teacher_map keeps, per tutor, the selections it
   matched: a part shares the selection's subjects list and prefs dict, so it is held
   as the selection's index. *)
selection_matches(sel) ==
  collect_best_matches(sel.subjects, sel.grade, board_display(sel.board_code), 4)

(* the loop over the selections: what collect_best_matches gives for each *)
RECURSIVE all_matches(_)
all_matches(selections) ==
  IF selections = <<>> THEN <<>>
  ELSE <<selection_matches(Head(selections))>> \o all_matches(Tail(selections))

(* the loop over the matches of selection number k *)
pairs_of(matches, k) == [j \in 1..Len(matches) |-> [t |-> matches[j], sel |-> k]]

(* every (tutor, selection index) pair in the order the loops meet them *)
match_pairs(found) == Flatten([k \in 1..Len(found) |-> pairs_of(found[k].out, k)])

(* the reports match_teachers sent to the admin chat on the way *)
match_logs(found) == Flatten([k \in 1..Len(found) |-> found[k].calls])

(* the pairs whose tutor is met for the first time *)
ordered_cards(pairs) ==
  SelectSeq([i \in 1..Len(pairs) |->
               IF \E j \in 1..(i - 1) : teacher_key(pairs[j].t) = teacher_key(pairs[i].t)
               THEN <<>> ELSE <<pairs[i]>>],
            LAMBDA x : x # <<>>)

(* entry["parts"] of one tutor: the selections of the pairs that name the tutor *)
parts_of(own) == [q \in 1..Len(own) |-> own[q].sel]

map_entry(t, pairs) ==
  [id |-> teacher_key(t), name |-> t.name,
   parts |-> parts_of(SelectSeq(pairs, LAMBDA p : teacher_key(p.t) = teacher_key(t)))]

(* per_teacher_map in insertion order, which is the order of the cards *)
per_teacher_map(pairs, cards) == [i \in 1..Len(cards) |-> map_entry(cards[i][1].t, pairs)]

last_matches(ptm) == [i \in 1..Len(ptm) |-> [id |-> ptm[i].id, name |-> ptm[i].name]]

card_call(c, card) ==
  Call(IF card.t.photo_url # "" THEN "sendPhoto" ELSE "sendMessage",
       c, 0, <<"card", teacher_key(card.t), card.sel>>, NoMarkup)

show_all_store(s, ptm) ==
  [s EXCEPT !.last_matches = Some(last_matches(ptm)),
            !.per_teacher_map = Some(ptm),
            !.selected_teachers = Some({})]

show_all_run(S0, c, s, logs, cards, ptm) ==
  Done2(S0, logs \o [i \in 1..Len(cards) |-> card_call(c, cards[i][1])],
        Put(S0, c, show_all_store(s, ptm)),
        <<Send(c, <<"select_tutors">>, <<"select_teachers", last_matches(ptm), {}>>)>>
        \o admin_log(<<"show_tutors">>))

show_all_pairs(S0, c, s, logs, pairs) ==
  show_all_run(S0, c, s, logs, ordered_cards(pairs),
               per_teacher_map(pairs, ordered_cards(pairs)))

show_all_found(S0, c, s, found) ==
  show_all_pairs(S0, c, s, match_logs(found), match_pairs(found))

on_show_all(S, c, m) ==
  IF Get(S, c).selections = <<>>
  THEN Done(session(S, c), <<AnswerCb(c, <<"No selections yet.">>)>>)
  ELSE show_all_found(session(S, c), c, Get(S, c), all_matches(Get(S, c).selections))

(* SEL_TEACHER|<tutor id> *)
selected_ids(s) == IF s.selected_teachers = Nothing THEN {} ELSE s.selected_teachers[1]

shown_matches(s) == IF s.last_matches = Nothing THEN <<>> ELSE s.last_matches[1]

sel_teacher_store(S, c, m, s, sel_ids) ==
  Done(Put(S, c, [s EXCEPT !.selected_teachers = Some(sel_ids)]),
       <<Call("editMessageReplyMarkup", c, m, <<>>,
              <<"select_teachers", shown_matches(s), sel_ids>>)>>)

flip(tid, old) == IF tid \in old THEN old \ {tid} ELSE old \cup {tid}

on_sel_teacher(S, c, m, data) ==
  sel_teacher_store(S, c, m, Get(S, c), flip(data[2], selected_ids(Get(S, c))))

(* SEND_WA: the link's prefilled text names the selected tutors that per_teacher_map
   holds, each with its parts as the selections now read *)
stored_map(s) == IF s.per_teacher_map = Nothing THEN <<>> ELSE s.per_teacher_map[1]

chosen_item(s, item) ==
  [name |-> item.name, parts |-> [q \in 1..Len(item.parts) |-> s.selections[item.parts[q]]]]

chosen(s, ptm, sel_ids) ==
  {chosen_item(s, ptm[i]) : i \in {j \in 1..Len(ptm) : ptm[j].id \in sel_ids}}

send_wa_run(S0, c, s, items) ==
  Done(S0, admin_log(<<"send_wa", items>>) \o <<Send(c, <<"wa_link", s.name, items>>, <<"restart">>)>>)

on_send_wa(S, c, m) ==
  IF selected_ids(Get(S, c)) = {}
  THEN Done(session(S, c), <<AnswerCb(c, <<"Pick at least one tutor.">>)>>)
  ELSE send_wa_run(session(S, c), c, Get(S, c),
                   chosen(Get(S, c), stored_map(Get(S, c)), selected_ids(Get(S, c))))

(* the callback_query part of _handle_webhook, after answerCallbackQuery *)
callback_branch(S, c, m, data) ==
  IF data = <<"noop">> THEN Run(<<>>, S, FALSE)
  ELSE IF data = <<"FORCE_RESTART">> THEN on_restart(S, c)
  ELSE IF Len(data) >= 2 /\ data[1] = "B" THEN on_board(S, c, m, data)
  ELSE IF Len(data) >= 2 /\ data[1] = "G" THEN on_grade(S, c, m, data)
  ELSE IF Len(data) >= 2 /\ data[1] = "T" THEN on_toggle(S, c, m, data)
  ELSE IF Len(data) >= 2 /\ data[1] = "D" THEN on_done(S, c, m, data)
  ELSE IF Len(data) >= 2 /\ data[1] = "MODE" THEN on_mode(S, c, m, data)
  ELSE IF Len(data) >= 2 /\ data[1] = "LPW" THEN on_lpw(S, c, m, data)
  ELSE IF data = <<"ADD_MORE">> THEN on_add_more(S, c, m)
  ELSE IF data = <<"SHOW_ALL">> THEN on_show_all(S, c, m)
  ELSE IF Len(data) >= 2 /\ data[1] = "SEL_TEACHER" THEN on_sel_teacher(S, c, m, data)
  ELSE IF data = <<"SEND_WA">> THEN on_send_wa(S, c, m)
  ELSE Run(<<>>, S, FALSE)

-----------------------------------------------------------------------------
(***************************************************************************)
(* Message branches of _handle_webhook                                     *)
(***************************************************************************)
chat_allowed(ctype) == ctype \in ALLOWED_CHAT_TYPES

(* text.lower().startswith("/start") *)
is_start(text) == text \in {"/start", "/START", "/start campaign"}

(* /start updating the dict it finds instead of storing a new one *)
on_start_in_place(S, c) ==
  Done2(S, admin_log(<<"start">>),
        Put(S, c, [Get(S, c) EXCEPT !.stage = "ask_name", !.name = "", !.selections = <<>>]),
        <<Send(c, <<"welcome">>, <<"restart">>)>>)

on_start(S, c) ==
  Done2(S, admin_log(<<"start">>),
        Put(S, c, fresh_session), <<Send(c, <<"welcome">>, <<"restart">>)>>)

(* the name branch taken in any stage *)
text_reply_any_stage(S, c, text, s) ==
  IF text # ""
  THEN Done(Put(S, c, [s EXCEPT !.name = text, !.stage = "flow"]),
            <<Send(c, <<"board_step">>, <<"board">>)>>)
  ELSE Done(session(S, c), <<Send(c, <<"use_the_options">>, <<"board">>)>>)

(* a text that is not /start: the name when the stage asks for it, else the fallback *)
text_reply(S, c, text, s) ==
  IF s.stage = "ask_name" /\ text # ""
  THEN Done(Put(S, c, [s EXCEPT !.name = text, !.stage = "flow"]),
            <<Send(c, <<"board_step">>, <<"board">>)>>)
  ELSE Done(session(S, c), <<Send(c, <<"use_the_options">>, <<"board">>)>>)

on_text(S, c, text) == text_reply(S, c, text, Get(S, c))

(* (msg.get("text") or "").strip(), of the texts the model sends *)
strip(text) ==
  CASE text = "  " -> ""
    [] text = " Ann " -> "Ann"
    [] OTHER -> text

message_branch(S, upd) ==
  IF upd.ctype = "" THEN Raise(S)
  ELSE IF ~chat_allowed(upd.ctype) THEN Run(<<>>, S, FALSE)
  ELSE IF is_start(strip(upd.text)) THEN on_start(S, upd.chat)
  ELSE on_text(S, upd.chat, strip(upd.text))

(* the callback branch, after the answerCallbackQuery made first *)
answered(S, c, r) == Run(At(S, <<AnswerCb(c, <<>>)>>) \o r.steps, r.S, r.raised)

(* the body of _handle_webhook's try block, after the header check *)
dispatch(S, upd) ==
  IF upd.kind = "callback_query" THEN
    IF upd.msg = 0 THEN Raise(S)
    ELSE answered(S, upd.chat, callback_branch(S, upd.chat, upd.msg, upd.data))
  ELSE IF upd.kind = "message" THEN message_branch(S, upd)
  ELSE Run(<<>>, S, FALSE)

-----------------------------------------------------------------------------
(***************************************************************************)
(* Signed links and the WhatsApp redirect (webhook.py:106-163, 535-553;    *)
(* api/wa.py).  A str is the sequence of its characters, a bytes value the *)
(* sequence of its byte values.  The texts of the model are printable      *)
(* ASCII (the grave accent is written "\\x60"); any other character is one  *)
(* element outside Printable.                                              *)
(***************************************************************************)
Printable ==
  <<" ", "!", "\"", "#", "$", "%", "&", "'", "(", ")", "*", "+", ",", "-", ".", "/",
    "0", "1", "2", "3", "4", "5", "6", "7", "8", "9", ":", ";", "<", "=", ">", "?",
    "@", "A", "B", "C", "D", "E", "F", "G", "H", "I", "J", "K", "L", "M", "N", "O",
    "P", "Q", "R", "S", "T", "U", "V", "W", "X", "Y", "Z", "[", "\\", "]", "^", "_",
    "\\x60", "a", "b", "c", "d", "e", "f", "g", "h", "i", "j", "k", "l", "m", "n", "o",
    "p", "q", "r", "s", "t", "u", "v", "w", "x", "y", "z", "{", "|", "}", "~">>

byte_of == [c \in Range(Printable) |-> 31 + CHOOSE i \in 1..Len(Printable) : Printable[i] = c]

isascii(s) == \A i \in 1..Len(s) : s[i] \in DOMAIN byte_of

(* str.encode() of an ASCII text, and bytes.decode(): UnicodeDecodeError ("raise")
   for a byte that is not ASCII *)
encode(s) == [i \in 1..Len(s) |-> byte_of[s[i]]]

decodable(d) == \A i \in 1..Len(d) : d[i] \in 32..126

decode(d) == [i \in 1..Len(d) |-> Printable[d[i] - 31]]

Digits == {"0", "1", "2", "3", "4", "5", "6", "7", "8", "9"}

Letters == {Printable[i] : i \in 34..59} \cup {Printable[i] : i \in 66..91}

(* the URL-safe alphabet of base64.urlsafe_b64encode, value v at position v + 1 *)
B64 ==
  <<"A", "B", "C", "D", "E", "F", "G", "H", "I", "J", "K", "L", "M", "N", "O", "P",
    "Q", "R", "S", "T", "U", "V", "W", "X", "Y", "Z", "a", "b", "c", "d", "e", "f",
    "g", "h", "i", "j", "k", "l", "m", "n", "o", "p", "q", "r", "s", "t", "u", "v",
    "w", "x", "y", "z", "0", "1", "2", "3", "4", "5", "6", "7", "8", "9", "-", "_">>

(* the value of a character for urlsafe_b64decode: the URL-safe alphabet, and "+"
   and "/" of the standard one, which the translation leaves in place *)
b64_value ==
  [c \in Range(B64) \cup {"+", "/"} |->
     IF c = "+" THEN 62 ELSE IF c = "/" THEN 63
     ELSE (CHOOSE i \in 1..64 : B64[i] = c) - 1]

(* byte i of d, 0 past its end *)
byte_at(d, i) == IF i <= Len(d) THEN d[i] ELSE 0

(* the value of character j of the encoding: the six bits that start at bit
   6 * (j - 1), byte i being the byte that holds the first of them *)
sextet(d, j, i) ==
  CASE (6 * (j - 1)) % 8 = 0 -> d[i] \div 4
    [] (6 * (j - 1)) % 8 = 6 -> (d[i] % 4) * 16 + byte_at(d, i + 1) \div 16
    [] (6 * (j - 1)) % 8 = 4 -> (d[i] % 16) * 4 + byte_at(d, i + 1) \div 64
    [] (6 * (j - 1)) % 8 = 2 -> d[i] % 64

(* base64.urlsafe_b64encode(d).decode(): with its "=" padding *)
urlsafe_b64encode(d) ==
  [j \in 1..((8 * Len(d) + 5) \div 6) |-> B64[sextet(d, j, (6 * (j - 1)) \div 8 + 1) + 1]]
  \o [j \in 1..((3 - (Len(d) % 3)) % 3) |-> "="]

(* s.rstrip("=") *)
rstrip_eq(s) ==
  SubSeq(s, 1, CHOOSE n \in 0..Len(s) :
                 (n = 0 \/ s[n] # "=") /\ \A k \in (n + 1)..Len(s) : s[k] = "=")

_b64u(d) == rstrip_eq(urlsafe_b64encode(d))

(* binascii.a2b_base64 without strict mode, as urlsafe_b64decode calls it.  A
   character outside the alphabet is skipped.  "=" ends the input when the group
   being read holds two or three characters and, counting the "=" met since the
   last of them, four; an earlier "=" is skipped.  A group left unfinished at the end
   of the input is binascii.Error. *)
is_data(c) == c \in DOMAIN b64_value

(* the number of alphabet characters before position i *)
data_before(s, i) == Cardinality({k \in 1..(i - 1) : is_data(s[k])})

(* the number of "=" from the last alphabet character before i up to i *)
pads_at(s, i) ==
  Cardinality({k \in 1..i : s[k] = "=" /\ \A m \in (k + 1)..i : ~is_data(s[m])})

ends_input(s, i) ==
  /\ s[i] = "="
  /\ data_before(s, i) % 4 >= 2
  /\ (data_before(s, i) % 4) + pads_at(s, i) >= 4

(* the position where reading stops: the first "=" that ends the input, else the end *)
stop_at(s) ==
  IF \E i \in 1..Len(s) : ends_input(s, i)
  THEN CHOOSE i \in 1..Len(s) : ends_input(s, i) /\ \A k \in 1..(i - 1) : ~ends_input(s, k)
  ELSE Len(s) + 1

(* the values of the alphabet characters read *)
data_values(chars) == [k \in 1..Len(chars) |-> b64_value[chars[k]]]

(* byte k of the decoding: the eight bits that start at bit 8 * (k - 1), value j
   being the one that holds the first of them *)
octet(v, k, j) ==
  CASE (8 * (k - 1)) % 6 = 0 -> v[j] * 4 + v[j + 1] \div 16
    [] (8 * (k - 1)) % 6 = 2 -> (v[j] % 16) * 16 + v[j + 1] \div 4
    [] (8 * (k - 1)) % 6 = 4 -> (v[j] % 4) * 64 + v[j + 1]

a2b_values(v, stopped) ==
  IF ~stopped /\ Len(v) % 4 # 0 THEN [ok |-> FALSE, d |-> <<>>]
  ELSE [ok |-> TRUE, d |-> [k \in 1..((6 * Len(v)) \div 8) |-> octet(v, k, (8 * (k - 1)) \div 6 + 1)]]

a2b_read(s, stop) ==
  a2b_values(data_values(SelectSeq(SubSeq(s, 1, stop - 1), is_data)), stop <= Len(s))

a2b_base64(s) == a2b_read(s, stop_at(s))

(* "=" * (-len(s) % 4) *)
pad(s) == [i \in 1..((4 - (Len(s) % 4)) % 4) |-> "="]

(* _b64u_dec(s): binascii.Error is ok = FALSE; a character that is not ASCII makes
   no difference to the decoder, which skips its bytes *)
_b64u_dec(s) == a2b_base64(s \o pad(s))

(* hmac.new(key, msg, hashlib.sha256).digest(): a keyed function without collisions,
   distinct (key, message) pairs having distinct digests.  The digest is held as the
   bytes that name the pair; no text of the model has a zero byte. *)
hmac_digest(key, msg) == key \o <<0>> \o msg

HexDigits == <<"0", "1", "2", "3", "4", "5", "6", "7", "8", "9", "a", "b", "c", "d", "e", "f">>

(* .hexdigest(): two lower-case hexadecimal digits per byte *)
hexdigest(d) ==
  [j \in 1..(2 * Len(d)) |->
     IF j % 2 = 1 THEN HexDigits[d[(j + 1) \div 2] \div 16 + 1]
     ELSE HexDigits[(d[j \div 2] % 16) + 1]]

(* hmac.compare_digest: TypeError ("raise") for a str with a character that is not
   ASCII, else whether the two are equal *)
compare_digest_str(a, b) ==
  IF ~isascii(a) \/ ~isascii(b) THEN "raise" ELSE IF a = b THEN "True" ELSE "False"

(* JSON values: <<"dict", pairs in insertion order>>, <<"str", text>>, <<"int", n>>,
   <<"null">> (None).  The texts hold no quote, backslash or control character, so
   json.dumps writes a str as it is between quotes. *)
JNull == <<"null">>
JStr(s) == <<"str", s>>
JInt(n) == <<"int", n>>
JDict(pairs) == <<"dict", pairs>>

(* f"{n}" of a natural number *)
RECURSIVE decimal(_)
decimal(n) == IF n < 10 THEN <<HexDigits[n + 1]>> ELSE decimal(n \div 10) \o <<HexDigits[(n % 10) + 1]>>

quoted(s) == <<"\"">> \o s \o <<"\"">>

(* json.dumps(obj, separators=(",", ":"), ensure_ascii=False) *)
dumps_scalar(v) ==
  IF v[1] = "str" THEN quoted(v[2])
  ELSE IF v[1] = "int" THEN decimal(v[2])
  ELSE <<"n", "u", "l", "l">>

dumps_pairs(pairs) ==
  join(",", [i \in 1..Len(pairs) |-> quoted(pairs[i][1]) \o <<":">> \o dumps_scalar(pairs[i][2])])

json_dumps(v) ==
  IF v[1] = "dict" THEN <<"{">> \o dumps_pairs(v[2]) \o <<"}">> ELSE dumps_scalar(v)

(* json.loads, for documents made of one scalar or one object of scalars, written
   without whitespace.  Anything else is JSONDecodeError (ok = FALSE): every such
   text the model feeds it is malformed JSON. *)
JFail == [ok |-> FALSE, v |-> JNull, next |-> 0]

(* the position of the first c at or after i, 0 when there is none *)
find(s, c, i) ==
  IF \E j \in i..Len(s) : s[j] = c
  THEN CHOOSE j \in i..Len(s) : s[j] = c /\ \A k \in i..(j - 1) : s[k] # c
  ELSE 0

(* the end of the run of digits that starts at i *)
digits_end(s, i) ==
  CHOOSE j \in i..Len(s) : (\A k \in i..j : s[k] \in Digits) /\ (j = Len(s) \/ s[j + 1] \notin Digits)

RECURSIVE int_of(_)
int_of(ds) ==
  IF ds = <<>> THEN 0
  ELSE 10 * int_of(SubSeq(ds, 1, Len(ds) - 1))
       + (CHOOSE n \in 0..9 : HexDigits[n + 1] = ds[Len(ds)])

(* a string literal whose opening quote is at i and closing quote at j *)
string_at(s, i, j) ==
  IF j = 0 \/ (\E k \in (i + 1)..(j - 1) : s[k] = "\\" \/ s[k] \notin DOMAIN byte_of) THEN JFail
  ELSE [ok |-> TRUE, v |-> JStr(SubSeq(s, i + 1, j - 1)), next |-> j + 1]

number_at(s, i, j) ==
  IF j > i /\ s[i] = "0" THEN JFail
  ELSE [ok |-> TRUE, v |-> JInt(int_of(SubSeq(s, i, j))), next |-> j + 1]

(* the scalar that starts at position i *)
scalar_at(s, i) ==
  IF i > Len(s) THEN JFail
  ELSE IF s[i] = "\"" THEN string_at(s, i, find(s, "\"", i + 1))
  ELSE IF s[i] \in Digits THEN number_at(s, i, digits_end(s, i))
  ELSE IF i + 3 <= Len(s) /\ SubSeq(s, i, i + 3) = <<"n", "u", "l", "l">>
    THEN [ok |-> TRUE, v |-> JNull, next |-> i + 4]
  ELSE JFail

(* the members of an object from position i on: "key":value, then "," or "}" *)
RECURSIVE members_at(_, _, _)
member_value(s, key, val, acc) ==
  IF ~val.ok \/ val.next > Len(s) THEN JFail
  ELSE IF s[val.next] = "}"
    THEN [ok |-> TRUE, v |-> JDict(Append(acc, <<key.v[2], val.v>>)), next |-> val.next + 1]
  ELSE IF s[val.next] = "," THEN members_at(s, val.next + 1, Append(acc, <<key.v[2], val.v>>))
  ELSE JFail

member_key(s, key, acc) ==
  IF ~key.ok \/ key.next > Len(s) \/ s[key.next] # ":" THEN JFail
  ELSE member_value(s, key, scalar_at(s, key.next + 1), acc)

members_at(s, i, acc) ==
  IF i > Len(s) \/ s[i] # "\"" THEN JFail
  ELSE member_key(s, string_at(s, i, find(s, "\"", i + 1)), acc)

value_at(s) ==
  IF s = <<>> THEN JFail
  ELSE IF s[1] = "{" THEN
    IF Len(s) >= 2 /\ s[2] = "}" THEN [ok |-> TRUE, v |-> JDict(<<>>), next |-> 3]
    ELSE members_at(s, 2, <<>>)
  ELSE scalar_at(s, 1)

whole(s, r) == IF r.ok /\ r.next = Len(s) + 1 THEN [ok |-> TRUE, v |-> r.v] ELSE [ok |-> FALSE, v |-> JNull]

json_loads(s) == whole(s, value_at(s))

(* json.loads(raw.decode()) *)
loads_bytes(d) == IF decodable(d) THEN json_loads(decode(d)) ELSE [ok |-> FALSE, v |-> JNull]

(* dict.get(key): the value stored last under the key, None when there is none *)
get(d, key) ==
  IF \E i \in 1..Len(d[2]) : d[2][i][1] = key
  THEN d[2][CHOOSE i \in 1..Len(d[2]) : d[2][i][1] = key /\ \A j \in (i + 1)..Len(d[2]) : d[2][j][1] # key][2]
  ELSE JNull

(* bool(v) *)
truthy(v) ==
  \/ v[1] = "str" /\ v[2] # <<>>
  \/ v[1] = "int" /\ v[2] # 0
  \/ v[1] = "dict" /\ v[2] # <<>>

(* tok.split(".", 1): one part when there is no dot, else the text before the first
   dot and the text after it *)
split1(s, sep) ==
  IF find(s, sep, 1) = 0 THEN <<s>>
  ELSE <<SubSeq(s, 1, find(s, sep, 1) - 1), SubSeq(s, find(s, sep, 1) + 1, Len(s))>>

(* _b64u(raw) + "." + _b64u(sig), sig the HMAC of raw *)
signed(key, raw) == _b64u(raw) \o <<".">> \o _b64u(hmac_digest(key, raw))

(* a token whose signature is never looked at *)
signed_unchecked(key, raw, sig) ==
  IF ~raw.ok \/ ~sig.ok THEN JNull
  ELSE IF loads_bytes(raw.d).ok THEN loads_bytes(raw.d).v ELSE JNull

(* the body of the try block once the token is split: None when a part is not
   base64, when the signature is not the HMAC of the payload bytes, and when the
   payload is not JSON *)
verified(key, raw, sig) ==
  IF ~raw.ok \/ ~sig.ok THEN JNull
  ELSE IF sig.d # hmac_digest(key, raw.d) THEN JNull
  ELSE IF loads_bytes(raw.d).ok THEN loads_bytes(raw.d).v ELSE JNull

verify_parts(key, parts) ==
  IF Len(parts) # 2 THEN JNull ELSE verified(key, _b64u_dec(parts[1]), _b64u_dec(parts[2]))

(* sign_wa_token / unsign_wa_token, key the bytes of WA_SIGNING_SECRET *)
sign_wa_token(key, obj) == signed(key, encode(json_dumps(obj)))

unsign_wa_token(key, tok) == verify_parts(key, split1(tok, "."))

(* DEEPLINK_SIGNING_SECRET and BOT_USERNAME of a deployment that sets them *)
DEEPLINK_SIGNING_SECRET == encode(<<"d", "k">>)
BOT_USERNAME == <<"b", "o", "t">>

(* payload.update(extra) *)
update(pairs, extra) ==
  [i \in 1..Len(pairs) |->
     IF \E j \in 1..Len(extra) : extra[j][1] = pairs[i][1]
     THEN <<pairs[i][1], get(JDict(extra), pairs[i][1])>> ELSE pairs[i]]
  \o SelectSeq(extra, LAMBDA e : \A i \in 1..Len(pairs) : pairs[i][1] # e[1])

deeplink_payload(campaign_id, extra, ts) ==
  JDict(update(<< <<<<"c", "i", "d">>, JStr(campaign_id)>>, <<<<"t", "s">>, JInt(ts)>> >>, extra))

(* make_deeplink: the URL https://t.me/<bot>?start=<token>, ts being _now_ts() *)
make_deeplink(campaign_id, extra, ts) ==
  <<"h", "t", "t", "p", "s", ":", "/", "/", "t", ".", "m", "e", "/">> \o BOT_USERNAME
  \o <<"?", "s", "t", "a", "r", "t", "=">>
  \o signed(DEEPLINK_SIGNING_SECRET, encode(json_dumps(deeplink_payload(campaign_id, extra, ts))))

verify_deeplink_token(token) == verify_parts(DEEPLINK_SIGNING_SECRET, split1(token, "."))

(* re.sub(r"\D+", "", s) *)
only_digits(s) == SelectSeq(s, LAMBDA c : c \in Digits)

PORTAL_WA_NUMBER == <<"9", "6", "5", "9", "7", "2", "7", "3", "4", "1", "1">>

PUBLIC_BASE_URL == <<"h", "t", "t", "p", "s", ":", "/", "/", "p", ".", "a", "p", "p">>

(* x or default, for a str *)
or_else(s, default) == IF s # <<>> THEN s ELSE default

wa_payload(user_id, username, teacher_id, wa_number, prefill_text, ts) ==
  JDict(<< <<<<"u", "s", "e", "r", "_", "i", "d">>, JInt(user_id)>>,
           <<<<"u", "s", "e", "r", "n", "a", "m", "e">>, JStr(username)>>,
           <<<<"t", "e", "a", "c", "h", "e", "r", "_", "i", "d">>, teacher_id>>,
           <<<<"w", "a">>, JStr(or_else(only_digits(wa_number), PORTAL_WA_NUMBER))>>,
           <<<<"t", "e", "x", "t">>, JStr(prefill_text)>>,
           <<<<"t", "s">>, JInt(ts)>> >>)

(* build_wa_redirect_link: <PUBLIC_BASE_URL>/api/wa?t=<token> *)
build_wa_redirect_link(key, user_id, username, teacher_id, wa_number, prefill_text, ts) ==
  PUBLIC_BASE_URL \o <<"/", "a", "p", "i", "/", "w", "a", "?", "t", "=">>
  \o sign_wa_token(key, wa_payload(user_id, username, teacher_id, wa_number, prefill_text, ts))

(* request.args.get(name, ""): the value of the query parameter of a URL whose
   parameter values need no decoding *)
arg_after(url, k) == IF k = 0 THEN <<>> ELSE SubSeq(url, k + 1, Len(url))

query_arg(url) == arg_after(url, find(url, "=", 1))

(* urllib.parse.quote(s, safe): a character that is a letter, a digit, one of
   "_.-~" or in safe stays; any other becomes "%" and the two upper-case hexadecimal
   digits of its byte *)
UpperHex == <<"0", "1", "2", "3", "4", "5", "6", "7", "8", "9", "A", "B", "C", "D", "E", "F">>

UNRESERVED_SET == Letters \cup Digits \cup {"-", ".", "_", "~"}

percent(b) == <<"%", UpperHex[b \div 16 + 1], UpperHex[(b % 16) + 1]>>

quote(s, safe) ==
  Flatten([i \in 1..Len(s) |->
             IF s[i] \in UNRESERVED_SET \cup safe THEN <<s[i]>> ELSE percent(byte_of[s[i]])])

(* int(h, 16) of two characters, -1 for ValueError *)
hex_value(c) ==
  IF \E n \in 0..15 : c \in {UpperHex[n + 1], HexDigits[n + 1]}
  THEN CHOOSE n \in 0..15 : c \in {UpperHex[n + 1], HexDigits[n + 1]}
  ELSE -1

int16(h) == IF hex_value(h[1]) < 0 \/ hex_value(h[2]) < 0 THEN -1 ELSE 16 * hex_value(h[1]) + hex_value(h[2])

isalnum(h) == \A i \in 1..Len(h) : h[i] \in Letters \cup Digits

(* requests.utils.unquote_unreserved: one part of uri.split("%") after the first.
   An escape of an unreserved character is replaced by the character, any other "%"
   is put back; InvalidURL ("raise") for two alphanumerics that are no number *)
is_escape(p) == Len(p) >= 2 /\ isalnum(SubSeq(p, 1, 2))

invalid_escape(p) == is_escape(p) /\ int16(SubSeq(p, 1, 2)) < 0

unquote_part(p) ==
  IF is_escape(p) /\ int16(SubSeq(p, 1, 2)) \in 32..126
     /\ Printable[int16(SubSeq(p, 1, 2)) - 31] \in UNRESERVED_SET
  THEN <<Printable[int16(SubSeq(p, 1, 2)) - 31]>> \o SubSeq(p, 3, Len(p))
  ELSE <<"%">> \o p

unquote_parts(parts) ==
  parts[1] \o Flatten([i \in 1..(Len(parts) - 1) |-> unquote_part(parts[i + 1])])

safe_with_percent ==
  {"!", "#", "$", "%", "&", "'", "(", ")", "*", "+", ",", "/", ":", ";", "=", "?", "@", "[", "]", "~"}

(* requests.utils.requote_uri *)
requote_parts(uri, parts) ==
  IF \E i \in 2..Len(parts) : invalid_escape(parts[i])
  THEN quote(uri, safe_with_percent \ {"%"})
  ELSE quote(unquote_parts(parts), safe_with_percent)

requote_uri(uri) == requote_parts(uri, split(uri, "%"))

(* f"https://wa.me/{wa}?text={text}" *)
wa_me(wa, text) ==
  <<"h", "t", "t", "p", "s", ":", "/", "/", "w", "a", ".", "m", "e", "/">> \o wa
  \o <<"?", "t", "e", "x", "t", "=">> \o text

(* The response to a redirect request: the status, what the body is, the Location
   header, the address the body's page sends the browser to, and the whatsapp_click
   events pushed to analytics (a deployment with GS_WEBHOOK and GS_SECRET set). *)
Response(status, body, location, refresh, clicks) ==
  [status |-> status, body |-> body, location |-> location, refresh |-> refresh, clicks |-> clicks]

(* an exception that leaves the view: Flask answers 500 *)
InternalServerError(clicks) == Response(500, "Internal Server Error", <<>>, <<>>, clicks)

(* the whatsapp_click record: data.get("user_id"), data.get("username") or "",
   data.get("teacher_id") *)
str_or_empty(v) == IF truthy(v) THEN v ELSE JStr(<<>>)

click(data) ==
  [user_id |-> get(data, <<"u", "s", "e", "r", "_", "i", "d">>),
   username |-> str_or_empty(get(data, <<"u", "s", "e", "r", "n", "a", "m", "e">>)),
   teacher_id |-> get(data, <<"t", "e", "a", "c", "h", "e", "r", "_", "i", "d">>)]

(* re.sub(r"\D+", "", data.get("wa", "") or "") or PORTAL_WA_NUMBER *)
wa_of(v) == or_else(only_digits(str_or_empty(v)[2]), PORTAL_WA_NUMBER)

(* a value that is truthy and no str: re.sub and the quoting functions raise TypeError *)
not_text(v) == truthy(v) /\ v[1] # "str"

(* the redirect of webhook.py once the token is verified *)
redirect_to(data, wa, text) ==
  IF data[1] # "dict" THEN InternalServerError(<<>>)
  ELSE IF not_text(wa) \/ not_text(text) THEN InternalServerError(<<click(data)>>)
  ELSE Response(302, "redirect", wa_me(wa_of(wa), requote_uri(str_or_empty(text)[2])),
                <<>>, <<click(data)>>)

redirect_data(data) ==
  IF ~truthy(data) THEN Response(400, "Bad token", <<>>, <<>>, <<>>)
  ELSE IF data[1] # "dict" THEN InternalServerError(<<>>)
  ELSE redirect_to(data, get(data, <<"w", "a">>), get(data, <<"t", "e", "x", "t">>))

(* wa_redirect of webhook.py: GET /api/wa?t=<token> *)
wa_redirect(key, t) == redirect_data(unsign_wa_token(key, t))

(* the page of api/wa.py once the token is decoded: the click is pushed inside a
   try block of its own, the rest is not *)
page_to(data, wa, text) ==
  IF not_text(wa) \/ not_text(text) THEN InternalServerError(<<click(data)>>)
  ELSE Response(200, "banner page", <<>>,
                wa_me(wa_of(wa), quote(str_or_empty(text)[2], {"/"})), <<click(data)>>)

page_data(r) ==
  IF ~r.ok THEN Response(400, "bad token", <<>>, <<>>, <<>>)
  ELSE IF r.v[1] # "dict" THEN InternalServerError(<<>>)
  ELSE page_to(r.v, get(r.v, <<"w", "a">>), get(r.v, <<"t", "e", "x", "t">>))

decoded(raw) == IF raw.ok THEN loads_bytes(raw.d) ELSE [ok |-> FALSE, v |-> JNull]

checked_page(cmp, t) ==
  IF cmp = "raise" THEN InternalServerError(<<>>)
  ELSE IF cmp = "False" THEN Response(403, "bad signature", <<>>, <<>>, <<>>)
  ELSE page_data(decoded(_b64u_dec(t)))

(* wa_redirect of api/wa.py: GET /api/wa?t=<base64>&sig=<hmac>, key the
   WA_SIGNING_SECRET of the deployment ("" = not configured) *)
wa_py_redirect(key, t, sig) ==
  IF key # <<>> THEN checked_page(compare_digest_str(hexdigest(hmac_digest(key, encode(t))), sig), t)
  ELSE page_data(decoded(_b64u_dec(t)))

(* no link built yet, no redirect request made yet *)
NoLink == [kind |-> "none", url |-> <<>>, payload |-> JNull]

NoVisit == [impl |-> "none", t |-> <<>>, sig |-> <<>>, at |-> 0]

NoAnswer == Response(0, "none", <<>>, <<>>, <<>>)

-----------------------------------------------------------------------------
(***************************************************************************)
(* The request as a whole                                                  *)
(***************************************************************************)

(* hmac.compare_digest on two str: TypeError when either holds a non-ASCII character *)
compare_digest(a, b) ==
  IF a \in NonAsciiHeaders \/ b \in NonAsciiHeaders THEN "TypeError"
  ELSE IF a = b THEN "True" ELSE "False"

(* verify_tg_header; hdr is the X-Telegram-Bot-Api-Secret-Token header, "" when absent *)
verify_tg_header(sec, hdr) ==
  IF sec = "" THEN "True" ELSE compare_digest(hdr, sec)

(* How the outbound calls of one request fare: call number `at` meets `kind` and the
   others succeed; at = 0 makes every call meet `kind`. *)
Plan(at, kind) == [at |-> at, kind |-> kind]

outcome_of(j, plan) == IF plan.at = 0 \/ plan.at = j THEN plan.kind ELSE "ok"

(* The except clause of _handle_webhook: report to the admin chat, answer 200. *)
except_calls == admin_log(<<"exception">>)

(* The body of _handle_webhook up to its return or its exception.  "raised" says the
   try block ended in an exception of its own (the TypeError of compare_digest is one). *)
request_run(S, sec, hdr, upd) ==
  IF verify_tg_header(sec, hdr) = "True" THEN dispatch(S, upd)
  ELSE Run(<<>>, S, verify_tg_header(sec, hdr) = "TypeError")

(* the calls of a run at which tg would raise into the handler *)
raising(steps, plan) ==
  {j \in 1..Len(steps) : tg(steps[j].call, outcome_of(j, plan)) = "raise"}

first_of(js) == CHOOSE j \in js : \A i \in js : j <= i

(* the number of calls the try block gets to make *)
made(steps, js) == IF js = {} THEN Len(steps) ELSE first_of(js)

(* an exception inside the except clause leaves the request to the framework *)
escaped(n_made, plan) ==
  \E j \in 1..Len(except_calls) : tg(except_calls[j], outcome_of(n_made + j, plan)) = "raise"

response(check, failed, esc) ==
  IF failed /\ esc THEN [status |-> 500, body |-> "Internal Server Error"]
  ELSE IF failed THEN on_exception
  ELSE IF check = "False" THEN bad_header_response
  ELSE OkResponse

(* A call that raised into the handler would end the try block there, with the
   sessions as they were at that call. *)
outcome(run, check, plan, js) ==
  [S |-> IF js # {} THEN run.steps[first_of(js)].S ELSE run.S,
   calls |-> [j \in 1..made(run.steps, js) |-> run.steps[j].call]
             \o (IF js # {} \/ run.raised THEN except_calls ELSE <<>>),
   resp |-> response(check, js # {} \/ run.raised, escaped(made(run.steps, js), plan))]

finish(run, check, plan) == outcome(run, check, plan, raising(run.steps, plan))

(* _handle_webhook: the sessions it leaves, the calls it makes, the response it gives *)
handle_webhook(S, sec, hdr, upd, plan) ==
  finish(request_run(S, sec, hdr, upd), verify_tg_header(sec, hdr), plan)

(* every way the calls of a run can fare: one call at a time, or all alike *)
Plans(run) == {Plan(at, kind) : at \in 0..(Len(run.steps) + 1), kind \in TgOutcomes}

-----------------------------------------------------------------------------
(***************************************************************************)
(* Requests the model delivers                                             *)
(***************************************************************************)
CS == <<"C", "S">>
ENL == <<"E", "N", "L">>
UnknownCode == <<"X", "X">>

MsgIds == {7}

(* encoded selections as the keyboards render them: no code, one code, two codes *)
RenderedEncs == {encode_sel({}), encode_sel({CS}), encode_sel({CS, ENL})}

CallbackData ==
  {<<"noop">>, <<"FORCE_RESTART">>, <<"ADD_MORE">>, <<"SHOW_ALL">>, <<"SEND_WA">>, <<"unknown">>}
  \cup {<<"B", "C">>, <<"G", "9", "C">>, <<"G", "x", "C">>}
  \cup {<<"T", CS, "C", "9", encode_sel({ENL})>>, <<"T", CS, "C", "9", UnknownCode>>}
  \cup {<<"D", "C", "9", enc>> : enc \in RenderedEncs \cup {UnknownCode}}
  \cup {<<"D", "C">>, <<"D", "C", "x", encode_sel({CS})>>}
  \cup {<<"MODE", "group">>}
  \cup {<<"LPW", n>> : n \in {"2", "x"}}
  \cup {<<"SEL_TEACHER", <<"t", "1">>>>}

Update(kind, chat, msg, data, text, ctype) ==
  [kind |-> kind, chat |-> chat, msg |-> msg, data |-> data, text |-> text, ctype |-> ctype]

(* msg = 0: a callback_query without its "message"; ctype = "": a chat without "type" *)
Updates ==
  {Update("callback_query", 1, m, d, "", "") : m \in MsgIds, d \in CallbackData}
  \cup {Update("callback_query", 1, 0, <<"noop">>, "", "")}
  \cup {Update("message", 1, 0, <<>>, text, "private") : text \in {"/start", "Ann", "", "  ", " Ann "}}
  \cup {Update("message", 1, 0, <<>>, "/start", ctype) : ctype \in {"channel", ""}}
  \cup {Update("other", 0, 0, <<>>, "", "")}
  \cup {Update("message", 2, 0, <<>>, "/start", "private")}

(* how Telegram's API fares while a request is handled: one kind per path through tg *)
DeliveredOutcomes == {"ok", "non200", "timeout"}

Headers == {"", ConfiguredSecret, "wr0ng"} \cup NonAsciiHeaders

(* the request that is also sent with a header other than the expected one *)
ProbeUpdates == {Update("message", 1, 0, <<>>, "/start", "private")}

NoRequest == [hdr |-> "", upd |-> Update("none", 0, 0, <<>>, "", ""), t |-> 0, tg |-> "ok",
              before |-> Nothing]

NoResponse == [status |-> 0, body |-> ""]

selections_of(S, c) == IF S[c] = Nothing THEN <<>> ELSE S[c][1].selections

-----------------------------------------------------------------------------
(***************************************************************************)
(* Specification                                                           *)
(***************************************************************************)
NoSessions == [c \in Chats |-> Nothing]

DONE_TTL == 300

(* seconds between one request and the next *)
RequestGap == 100

Init ==
  /\ SESSIONS = NoSessions
  /\ RECENT_DONE = [c \in Chats |-> <<>>]
  /\ now = 0
  /\ secret \in {"", ConfiguredSecret}
  /\ req = NoRequest
  /\ out = <<>>
  /\ resp = NoResponse
  /\ nreq = 0
  /\ WA_SIGNING_SECRET = <<>>
  /\ link = NoLink
  /\ visit = NoVisit
  /\ answer = NoAnswer
  /\ args = NoArgs
  /\ ret = NoRet
  /\ history = <<>>
  /\ shown = {}

(* the handler's effects become the state; kind is how Telegram's API fared meanwhile,
   before the chat's entry in SESSIONS when the request arrived *)
Deliver(hdr, upd, kind, r) ==
  /\ SESSIONS' = r.S
  /\ out' = r.calls
  /\ resp' = r.resp
  /\ req' = [hdr |-> hdr, upd |-> upd, t |-> now, tg |-> kind,
             before |-> IF upd.chat \in Chats THEN SESSIONS[upd.chat] ELSE Nothing]

Handle(hdr, upd, run) ==
  /\ \A c \in Chats : Len(selections_of(run.S, c)) <= MaxSelections
  /\ \E kind \in DeliveredOutcomes :
        Deliver(hdr, upd, kind, finish(run, verify_tg_header(secret, hdr), Plan(0, kind)))

(* POST /api/webhook (webhook_api, webhook_catchall): one run of _handle_webhook *)
Webhook ==
  /\ nreq < MaxRequests
  /\ \E hdr \in Headers, upd \in Updates :
       /\ hdr = secret \/ upd \in ProbeUpdates
       /\ Handle(hdr, upd, request_run(SESSIONS, secret, hdr, upd))
  /\ nreq' = nreq + 1
  /\ now' = now + RequestGap
  /\ UNCHANGED <<RECENT_DONE, secret>>
  /\ UNCHANGED wa_vars
  /\ UNCHANGED <<fn_vars, shown>>

(* the process is restarted or redeployed: the module-level dictionaries start empty,
   and the new process has handled no request yet *)
ProcessRestart ==
  /\ SESSIONS # NoSessions
  /\ SESSIONS' = NoSessions
  /\ RECENT_DONE' = [c \in Chats |-> <<>>]
  /\ req' = NoRequest
  /\ out' = <<>>
  /\ resp' = NoResponse
  /\ UNCHANGED <<now, secret, nreq>>
  /\ UNCHANGED wa_vars
  /\ UNCHANGED <<fn_vars, shown>>

Next == Webhook \/ ProcessRestart

Spec == Init /\ [][Next]_vars

-----------------------------------------------------------------------------
(***************************************************************************)
(* Subject toggling on its own: T| callbacks only, pressed on the keyboard *)
(* rendered last or sent with an encoded selection of the sender's making. *)
(***************************************************************************)
MaxToggles == 3

ENLIT == <<"E", "N", "L", "I", "T">>
AR == <<"A", "R">>

ToggleCodes == {CS, ENL, ENLIT, AR}

(* encoded selections no keyboard renders: unsorted, repeated codes, empty segments *)
CraftedEncs ==
  {<<>>, join(".", <<ENL, CS>>), join(".", <<CS, CS>>), join(".", <<ENLIT, <<>>, AR>>),
   <<".">> \o ENL}

toggle_update(code, enc) ==
  Update("callback_query", 1, 7, <<"T", code, "C", "9", enc>>, "", "")

(* the T buttons of the keyboard a call rendered, for the codes the model presses *)
toggle_buttons(call) ==
  {d \in Buttons(call.markup) : d[1] = "T" /\ d[2] \in ToggleCodes \cup {RESET}}

Toggle(upd) ==
  /\ Handle(secret, upd, request_run(SESSIONS, secret, secret, upd))
  /\ nreq' = nreq + 1
  /\ now' = now + RequestGap
  /\ UNCHANGED <<RECENT_DONE, secret>>
  /\ UNCHANGED wa_vars
  /\ UNCHANGED <<fn_vars, shown>>

PressCrafted ==
  /\ nreq < MaxToggles
  /\ \E code \in ToggleCodes \cup {RESET}, enc \in CraftedEncs : Toggle(toggle_update(code, enc))

PressRendered ==
  /\ nreq < MaxToggles
  /\ out # <<>>
  /\ \E d \in toggle_buttons(out[Len(out)]) : Toggle(toggle_update(d[2], d[5]))

NextToggle == PressCrafted \/ PressRendered

SpecToggle == Init /\ [][NextToggle]_vars

-----------------------------------------------------------------------------
(***************************************************************************)
(* The subject menu used as the bot renders it: a grade button is pressed, *)
(* then subjects are toggled, each on the keyboard rendered last.          *)
(***************************************************************************)
MaxPresses == 6

(* the codes the model presses: the AS/A Level subjects of the menu *)
MenuCodes == {c \in DOMAIN CODE_TO_SUBJECT : Len(c) = 10}

menu_buttons(call) == {d \in Buttons(call.markup) : d[1] = "T" /\ d[2] \in MenuCodes}

PressGrade ==
  /\ nreq = 0
  /\ \E g \in {"9", "10"} : Toggle(Update("callback_query", 1, 7, <<"G", g, "C">>, "", ""))

PressSubject ==
  /\ nreq \in 1..(MaxPresses - 1)
  /\ out # <<>>
  /\ \E d \in menu_buttons(out[Len(out)]) : Toggle(Update("callback_query", 1, 7, d, "", ""))

NextMenu == PressGrade \/ PressSubject

SpecMenu == Init /\ [][NextMenu]_vars

(* len(callback_data.encode()): the fields of a button's callback_data and the "|"
   between them; every character the bot puts there is ASCII *)
atom_len ==
  [a \in {"noop", "FORCE_RESTART", "ADD_MORE", "SHOW_ALL", "SEND_WA", "SEL_TEACHER",
          "MODE", "LPW", "1:1", "group", "T", "D", "G", "B", "C", "E", "O"}
         \cup DOMAIN IntStrings |->
     CASE a \in DOMAIN IntStrings -> Len(decimal(IntStrings[a]))
       [] a \in {"T", "D", "G", "B", "C", "E", "O"} -> 1
       [] a \in {"1:1", "LPW"} -> 3
       [] a \in {"noop", "MODE"} -> 4
       [] a = "group" -> 5
       [] a = "SEND_WA" -> 7
       [] a \in {"ADD_MORE", "SHOW_ALL"} -> 8
       [] a = "SEL_TEACHER" -> 11
       [] a = "FORCE_RESTART" -> 13]

callback_len(d) ==
  CASE d[1] = "T" -> 2 + Len(d[2]) + 1 + atom_len[d[3]] + 1 + atom_len[d[4]] + 1 + Len(d[5])
    [] d[1] = "D" -> 2 + atom_len[d[2]] + 1 + atom_len[d[3]] + 1 + Len(d[4])
    [] d[1] = "G" -> 2 + atom_len[d[2]] + 1 + atom_len[d[3]]
    [] d[1] = "SEL_TEACHER" -> atom_len[d[1]] + 1 + Len(d[2])
    [] d[1] \in {"B", "MODE", "LPW"} -> atom_len[d[1]] + 1 + atom_len[d[2]]
    [] OTHER -> atom_len[d[1]]

-----------------------------------------------------------------------------
(***************************************************************************)
(* Links and redirect requests.  A behaviour builds one link, lets time    *)
(* pass, and makes redirect requests to either implementation: with the    *)
(* link's token, with alterations of it, and with tokens that anyone who   *)
(* lacks the key can write.                                                *)
(***************************************************************************)
ClockStep == 3600
MaxClock == 7200

(* a configured WA_SIGNING_SECRET *)
ConfiguredKey == encode(<<"k", "1">>)

UserIds == {5}
Usernames == {<<"a", "n", "n">>}
WaNumbers == {<<>>, <<"+", "9", "6", "5", " ", "1">>}
PrefillTexts == {<<"H", "i">>, <<"T", "r", "a", "v", "e", "l", " ", "&", " ", "T">>}
Campaigns == {<<"c", "7">>}
Extras == {<<>>, << <<<<"s", "r", "c">>, JStr(<<"f", "b">>)>> >>}

InitRedirect ==
  /\ SESSIONS = NoSessions
  /\ RECENT_DONE = [c \in Chats |-> <<>>]
  /\ now = 0
  /\ secret = ""
  /\ req = NoRequest
  /\ out = <<>>
  /\ resp = NoResponse
  /\ nreq = 0
  /\ WA_SIGNING_SECRET \in {<<>>, ConfiguredKey}
  /\ link = NoLink
  /\ visit = NoVisit
  /\ answer = NoAnswer
  /\ args = NoArgs
  /\ ret = NoRet
  /\ history = <<>>
  /\ shown = {}

(* SEND_WA, or any caller, builds the redirect link of a payload *)
BuildLink ==
  /\ link = NoLink
  /\ \E u \in UserIds, n \in Usernames, w \in WaNumbers, x \in PrefillTexts :
       link' = [kind |-> "wa",
                url |-> build_wa_redirect_link(WA_SIGNING_SECRET, u, n, JNull, w, x, now),
                payload |-> wa_payload(u, n, JNull, w, x, now)]
  /\ UNCHANGED <<now, bot_vars, WA_SIGNING_SECRET, visit, answer>>
  /\ UNCHANGED <<fn_vars, shown>>

(* a campaign deep link is made *)
MakeDeeplink ==
  /\ link = NoLink
  /\ \E c \in Campaigns, e \in Extras :
       link' = [kind |-> "deeplink", url |-> make_deeplink(c, e, now),
                payload |-> deeplink_payload(c, e, now)]
  /\ UNCHANGED <<now, bot_vars, WA_SIGNING_SECRET, visit, answer>>
  /\ UNCHANGED <<fn_vars, shown>>

(* time passes *)
Tick ==
  /\ now < MaxClock
  /\ now' = now + ClockStep
  /\ UNCHANGED <<bot_vars, wa_vars>>
  /\ UNCHANGED <<fn_vars, shown>>

(* the two parts of the link's token *)
raw_part(tok) == split1(tok, ".")[1]
sig_part(tok) == split1(tok, ".")[2]

(* a payload the key's holder never signed *)
OtherPayload == wa_payload(5, <<>>, JNull, <<"9", "9">>, <<"p", "w", "n">>, 0)

(* s with its first character replaced by another of the alphabet *)
flip_first(s) == [s EXCEPT ![1] = IF s[1] = "A" THEN "B" ELSE "A"]

(* the number of values of the last character that the decoder reads alike: the
   character of an encoding of 1 or 2 bytes mod 3 ends in 4 or 2 bits that are dropped *)
spare(s) == IF Len(s) % 4 = 2 THEN 16 ELSE IF Len(s) % 4 = 3 THEN 4 ELSE 1

respare(v, m) == (v - (v % m)) + (((v % m) + 1) % m)

(* s with the dropped bits of its last character changed, when it has such bits *)
flip_spare(s) == [s EXCEPT ![Len(s)] = B64[respare(b64_value[s[Len(s)]], spare(s)) + 1]]

Junk == <<"!", "!", "!", "!">>

other_raw == _b64u(encode(json_dumps(OtherPayload)))

(* tokens made from a signed token by altering its payload part or its signature part *)
altered(raw, sig) ==
  {other_raw \o <<".">> \o sig,
   flip_first(raw) \o <<".">> \o sig,
   raw \o <<".">> \o flip_first(sig),
   raw \o <<".">> \o flip_spare(sig),
   raw \o <<".">> \o sig \o Junk,
   raw \o Junk \o <<".">> \o sig,
   raw \o <<".">> \o SubSeq(sig, 1, Len(sig) - 1),
   raw \o <<".">>,
   raw}
  \ {raw \o <<".">> \o sig}

AlteredTokens(tok) == altered(raw_part(tok), sig_part(tok))

(* the alterations sent to the redirect endpoint: another payload, signs that the
   decoder skips after the signature, no signature *)
tampered(raw, sig) ==
  {other_raw \o <<".">> \o sig, raw \o <<".">> \o sig \o Junk, raw \o <<".">>, raw}

TamperedTokens(tok) == tampered(raw_part(tok), sig_part(tok))

(* tokens that need no key: signed with the empty key, one of them no object *)
KeylessTokens(tok) ==
  {signed(<<>>, _b64u_dec(raw_part(tok)).d), signed(<<>>, encode(<<"5">>)), <<"Q">>}

(* GET /api/wa?t=<token> on the deployment of webhook.py *)
VisitWebhook ==
  /\ link.kind = "wa"
  /\ \E t \in {query_arg(link.url)} \cup TamperedTokens(query_arg(link.url))
              \cup KeylessTokens(query_arg(link.url)) :
       /\ visit' = [impl |-> "webhook.py", t |-> t, sig |-> <<>>, at |-> now]
       /\ answer' = wa_redirect(WA_SIGNING_SECRET, t)
  /\ UNCHANGED <<now, bot_vars, WA_SIGNING_SECRET, link>>
  /\ UNCHANGED <<fn_vars, shown>>

(* the sig parameter the key's holder gives t, api/wa.py being the verifier *)
hex_sig(key, t) == hexdigest(hmac_digest(key, encode(t)))

(* requests of api/wa.py for the payload of the link: signed by the key's holder,
   without a signature, with a signature under another key, with a signature that
   is not ASCII, with another payload, with what is no token *)
WaPyRequests(key, raw) ==
  {<<raw, hex_sig(key, raw)>>,
   <<raw, <<>>>>,
   <<raw, hex_sig(encode(<<"x">>), raw)>>,
   <<raw, <<"\\xe9">>>>,
   <<other_raw, hex_sig(key, raw)>>,
   <<_b64u(encode(<<"5">>)), <<>>>>,
   <<<<"Q">>, <<>>>>}

(* GET /api/wa?t=<base64>&sig=<hmac> on the deployment of api/wa.py; the link as
   build_wa_redirect_link made it is the request with its token as t and no sig *)
VisitWaPy ==
  /\ link.kind = "wa"
  /\ \E r \in WaPyRequests(WA_SIGNING_SECRET, raw_part(query_arg(link.url)))
              \cup {<<query_arg(link.url), <<>>>>} :
       /\ visit' = [impl |-> "wa.py", t |-> r[1], sig |-> r[2], at |-> now]
       /\ answer' = wa_py_redirect(WA_SIGNING_SECRET, r[1], r[2])
  /\ UNCHANGED <<now, bot_vars, WA_SIGNING_SECRET, link>>
  /\ UNCHANGED <<fn_vars, shown>>

NextRedirect == BuildLink \/ MakeDeeplink \/ Tick \/ VisitWebhook \/ VisitWaPy

SpecRedirect == InitRedirect /\ [][NextRedirect]_vars

-----------------------------------------------------------------------------
(***************************************************************************)
(* The matcher and the canonical-name functions called on their own, over  *)
(* the catalog: Init draws the call, one action per function makes it.     *)
(***************************************************************************)
(* subject labels: the menu's and the catalog's, free text, a blank one, none *)
SubjectLabels ==
  known_labels
  \cup {<<"mathematics">>, <<"cs">>, <<"Literature">>, <<"english", " ", "lit">>,
        <<"klingon">>, <<" ">>, <<>>}

Grades == {NoGrade, 9, 10, 11}

BoardLabels == {<<>>, <<"Cambridge">>, <<"E">>, <<"Oxford", " ", "AQA">>, <<" ">>}

Limits == {1, 3}

(* the subject lists collect_best_matches is asked about, some naming a subject twice
   or naming two subjects of one tutor *)
ListLabels ==
  {<<"CS">>, <<"Computer", " ", "Science">>, <<"English">>, <<"English", " ", "Literature">>,
   <<"klingon">>}

SubjectLists ==
  {<<a>> : a \in ListLabels} \cup {<<a, b>> : a \in ListLabels, b \in ListLabels}
  \cup {<<<<"English">>, <<"klingon">>, <<"CS">>>>}

Ks == {1, 2, 4}

(* every name VALID_SUBJECTS holds, and the names canonical_subject returns for them *)
TableNames ==
  UNION {{VALID_SUBJECTS[e].canonical} \cup Range(VALID_SUBJECTS[e].aliases)
         : e \in 1..Len(VALID_SUBJECTS)}

NiceNames == {_nice_subject_name(lower_atoms(VALID_SUBJECTS[e].canonical)) : e \in 1..Len(VALID_SUBJECTS)}

CanonLabels == TableNames \cup NiceNames \cup SubjectLabels

(* board labels: every alias in some case and spacing, unknown boards, blank, none *)
BoardInputs ==
  {<<"o">>, <<"oxford">>, <<"oxfordaqa">>, <<"oxford", " ", "aqa">>, <<"c">>, <<"cambridge">>,
   <<"e">>, <<"edexcel">>, <<"pearson", " ", "edexcel">>, <<"pearson">>,
   <<"O">>, <<"OxfordAQA">>, <<"Oxford", " ", " ", "AQA">>, <<" ", "Cambridge", " ">>, <<"C">>,
   <<"Pearson", " ", "Edexcel">>, <<"E">>,
   <<"Unknown", " ", "Board">>, <<"Unknown", " ", " ", "Board">>, <<" ", "IB">>, <<"ib">>,
   <<" ">>, <<>>}

Call1(fn, subject, subjects, grade, board, limit) ==
  [fn |-> fn, subject |-> subject, subjects |-> subjects, grade |-> grade,
   board |-> board, limit |-> limit]

FnCalls ==
  {Call1("match_teachers", s, <<>>, g, b, n)
     : s \in SubjectLabels, g \in Grades, b \in BoardLabels, n \in Limits}
  \cup {Call1("collect_best_matches", <<>>, ss, g, b, k)
          : ss \in SubjectLists, g \in Grades, b \in BoardLabels, k \in Ks}
  \cup {Call1("canonical_subject", s, <<>>, NoGrade, <<>>, 0) : s \in CanonLabels}
  \cup {Call1("canonical_board", <<>>, <<>>, NoGrade, b, 0) : b \in BoardInputs}

InitMatch ==
  /\ SESSIONS = NoSessions
  /\ RECENT_DONE = [c \in Chats |-> <<>>]
  /\ now = 0
  /\ secret = ""
  /\ req = NoRequest
  /\ out = <<>>
  /\ resp = NoResponse
  /\ nreq = 0
  /\ WA_SIGNING_SECRET = <<>>
  /\ link = NoLink
  /\ visit = NoVisit
  /\ answer = NoAnswer
  /\ args \in FnCalls
  /\ ret = NoRet
  /\ history = <<>>
  /\ shown = {}

matcher_returned(fn, r) == Returned(fn, r.results, r.calls, <<>>)

MatchTeachers ==
  /\ ret = NoRet
  /\ args.fn = "match_teachers"
  /\ ret' = matcher_returned("match_teachers",
                             match_teachers(args.subject, args.grade, args.board, args.limit))
  /\ UNCHANGED <<now, bot_vars, wa_vars, args, history, shown>>

collect_returned(r) == Returned("collect_best_matches", r.out, r.calls, <<>>)

CollectBestMatches ==
  /\ ret = NoRet
  /\ args.fn = "collect_best_matches"
  /\ ret' = collect_returned(collect_best_matches(args.subjects, args.grade, args.board, args.limit))
  /\ UNCHANGED <<now, bot_vars, wa_vars, args, history, shown>>

CanonicalSubject ==
  /\ ret = NoRet
  /\ args.fn = "canonical_subject"
  /\ ret' = Returned("canonical_subject", <<>>, <<>>, canonical_subject(args.subject))
  /\ UNCHANGED <<now, bot_vars, wa_vars, args, history, shown>>

CanonicalBoard ==
  /\ ret = NoRet
  /\ args.fn = "canonical_board"
  /\ ret' = Returned("canonical_board", <<>>, <<>>, canonical_board(args.board))
  /\ UNCHANGED <<now, bot_vars, wa_vars, args, history, shown>>

NextMatch == MatchTeachers \/ CollectBestMatches \/ CanonicalSubject \/ CanonicalBoard

SpecMatch == InitMatch /\ [][NextMatch]_vars

(* the call of match_teachers has returned *)
returned == ret.done /\ ret.fn = "match_teachers"

(* the tutors that pass the subject filter of the call *)
subject_candidates(subject) ==
  SelectSeq(TEACHERS, LAMBDA t : subject # <<>> => teacher_has_subject(t.subjects, subject))

-----------------------------------------------------------------------------
(***************************************************************************)
(* already_done called on its own, as a caller guarding a handler would    *)
(***************************************************************************)
MaxCalls == 3

(* a ttl shorter than the default one *)
ShortTtl == 150

Ttls == {DONE_TTL, ShortTtl}

Signatures == {"7|C|9|CS", "7|C|9|CS.ENL"}

(* lst = [(k, t) for (k, t) in lst if now - t < ttl] *)
unexpired(lst, t, ttl) == SelectSeq(lst, LAMBDA e : t - e[2] < ttl)

held(lst, signature) == \E i \in 1..Len(lst) : lst[i][1] = signature

(* already_done that moves a held record to the time of the duplicate *)
already_done_refreshing(RD, chat_id, signature, ttl, t) ==
  IF held(unexpired(RD[chat_id], t, ttl), signature)
  THEN [RD |-> [RD EXCEPT ![chat_id] =
                   [i \in 1..Len(unexpired(RD[chat_id], t, ttl)) |->
                      IF unexpired(RD[chat_id], t, ttl)[i][1] = signature
                      THEN <<signature, t>> ELSE unexpired(RD[chat_id], t, ttl)[i]]],
        value |-> TRUE]
  ELSE [RD |-> [RD EXCEPT ![chat_id] = Append(unexpired(RD[chat_id], t, ttl), <<signature, t>>)],
        value |-> FALSE]

(* already_done(chat_id, signature, ttl) at time t: RECENT_DONE as it leaves it, and
   the value it returns *)
already_done(RD, chat_id, signature, ttl, t) ==
  IF held(unexpired(RD[chat_id], t, ttl), signature)
  THEN [RD |-> [RD EXCEPT ![chat_id] = unexpired(RD[chat_id], t, ttl)], value |-> TRUE]
  ELSE [RD |-> [RD EXCEPT ![chat_id] = Append(unexpired(RD[chat_id], t, ttl), <<signature, t>>)],
        value |-> FALSE]

DoneCall(chat_id, signature, ttl, t, value) ==
  [chat |-> chat_id, sig |-> signature, ttl |-> ttl, t |-> t, value |-> value]

called(c, sig, ttl, r) ==
  /\ RECENT_DONE' = r.RD
  /\ history' = Append(history, DoneCall(c, sig, ttl, now, r.value))

AlreadyDone ==
  /\ Len(history) < MaxCalls
  /\ \E c \in Chats, sig \in Signatures, ttl \in Ttls :
       called(c, sig, ttl, already_done(RECENT_DONE, c, sig, ttl, now))
  /\ UNCHANGED <<now, SESSIONS, secret, req, out, resp, nreq, wa_vars, args, ret, shown>>

(* time passes between two calls *)
Wait ==
  /\ now < MaxCalls * RequestGap
  /\ now' = now + RequestGap
  /\ UNCHANGED <<bot_vars, wa_vars, fn_vars, shown>>

NextDone == AlreadyDone \/ Wait

(* the header secret plays no part in these calls *)
InitDone == Init /\ secret = ""

SpecDone == InitDone /\ [][NextDone]_vars
-----------------------------------------------------------------------------
(***************************************************************************)
(* The conversation as a user holds it: /start, a typed text, and presses  *)
(* of buttons the bot itself has put in the chat.  A keyboard stays in the *)
(* chat until its message is edited, a press can be made twice before the  *)
(* edit arrives, and Telegram delivers an update again when it got no      *)
(* answer in time: every button shown so far can be pressed at any time.   *)
(***************************************************************************)
MaxTaps == 10

(* the buttons of the keyboards the request handled last put in the user's chat *)
rendered(calls, c) ==
  UNION {Buttons(calls[k].markup) : k \in {j \in 1..Len(calls) : calls[j].chat = c}}

(* the buttons the model presses: one board, one grade, two subjects of the menu and
   its reset button, one tutor *)
tapped(d) ==
  CASE d[1] = "B" -> d[2] = "C"
    [] d[1] = "G" -> d[2] = "9"
    [] d[1] = "T" -> d[2] \in {CS, ENL, RESET}
    [] d[1] = "SEL_TEACHER" -> d[2] = <<"t", "1">>
    [] OTHER -> d # <<"noop">>

(* one request with the configured header, every Telegram call delivered *)
Tap(upd, run) ==
  /\ \A c \in Chats : Len(selections_of(run.S, c)) <= MaxSelections
  /\ Deliver(secret, upd, "ok", finish(run, verify_tg_header(secret, secret), Plan(0, "ok")))
  /\ shown' = shown \cup {d \in rendered(out', upd.chat) : tapped(d)}
  /\ nreq' = nreq + 1
  /\ now' = now + RequestGap
  /\ UNCHANGED <<RECENT_DONE, secret, wa_vars, fn_vars>>

Type(text) ==
  /\ nreq < MaxTaps
  /\ \E upd \in {Update("message", 1, 0, <<>>, text, "private")} :
       Tap(upd, request_run(SESSIONS, secret, secret, upd))

SendStart == Type("/start")

SendName == SESSIONS[1] # Nothing /\ Type("Ann")

PressShown ==
  /\ nreq < MaxTaps
  /\ \E d \in shown :
       \E upd \in {Update("callback_query", 1, 7, d, "", "")} :
         Tap(upd, request_run(SESSIONS, secret, secret, upd))

(* a restart of the process empties SESSIONS; the chat keeps its keyboards *)
NextPress == SendStart \/ SendName \/ PressShown \/ ProcessRestart

InitPress == Init /\ secret = ""

SpecPress == InitPress /\ [][NextPress]_vars


-----------------------------------------------------------------------------
(***************************************************************************)
(* Properties                                                              *)
(***************************************************************************)

(* the process has handled a request since it started *)
handled == req # NoRequest

(* the request handled last got past the secret-header check *)
passed_check == handled /\ verify_tg_header(secret, req.hdr) = "True"

(* SESSIONS when the request handled last arrived: a request writes its chat's entry only *)
sessions_before ==
  IF req.upd.chat \in Chats THEN [SESSIONS EXCEPT ![req.upd.chat] = req.before] ELSE SESSIONS

(* C5: every POST that passes the secret-header check is answered 200 with the body
   {"ok": true}, whatever the update is and also when handling it raises. *)
C5_AnsweredOk == passed_check => resp = OkResponse

(* a request that passed the check, raised while being handled (the except clause's
   report is the last call made) and was answered 200 *)
C5_Witness ==
  /\ passed_check
  /\ out # <<>> /\ out[Len(out)] \in Range(except_calls)
  /\ resp = OkResponse

(* a request ends with these sessions and this response however its calls fare *)
ends_as(r, S1, r1) == r.S = S1 /\ r.resp = r1

same_under(run, check, S1, r1) ==
  \A plan \in Plans(run) : ends_as(finish(run, check, plan), S1, r1)

(* C10: the sessions a request leaves and the HTTP response it gets are the same
   whether each of its outbound Telegram calls succeeds, gets a non-200 or malformed
   response, times out or fails to connect. *)
C10_DeliveryIndependent ==
  handled => same_under(request_run(sessions_before, secret, req.hdr, req.upd),
                        verify_tg_header(secret, req.hdr), SESSIONS, resp)

(* a Done callback handled while every call to Telegram timed out or failed to
   connect: the selection is stored and the request answered 200 all the same *)
C10_Witness ==
  /\ passed_check
  /\ req.tg \in {"timeout", "connection_error"}
  /\ req.upd.kind = "callback_query" /\ req.upd.data = <<"D", "C", "9", encode_sel({CS})>>
  /\ SESSIONS[1] # Nothing /\ Len(SESSIONS[1][1].selections) = 1
  /\ SESSIONS[1][1].stage = "ask_mode_per_subject"
  /\ Len(out) = 3
  /\ resp = OkResponse

(* the chat of the request handled last, and its session *)
chat == req.upd.chat
now_session == SESSIONS[chat][1]
old_session == req.before[1]

(* a /start message, or a FORCE_RESTART callback *)
asks_reset(upd) ==
  \/ upd.kind = "message" /\ is_start(upd.text)
  \/ upd.kind = "callback_query" /\ upd.data = <<"FORCE_RESTART">>

(* the same, the /start coming from a chat whose type the bot serves *)
asks_reset_allowed(upd) ==
  \/ upd.kind = "message" /\ is_start(upd.text) /\ chat_allowed(upd.ctype)
  \/ upd.kind = "callback_query" /\ upd.data = <<"FORCE_RESTART">>

(* stage ask_name, no name, no selections, nothing else left over *)
is_reset(s) ==
  /\ s.stage = "ask_name" /\ s.name = "" /\ s.selections = <<>>
  /\ s.board_code = Nothing /\ s.grade = Nothing
  /\ s.pref_flow.state # "dict"
  /\ s.last_matches = Nothing /\ s.per_teacher_map = Nothing /\ s.selected_teachers = Nothing

reset_done == SESSIONS[chat] # Nothing /\ is_reset(now_session)

(* C4, as stated: after a /start message or a FORCE_RESTART callback for a chat, the
   chat's session is exactly stage ask_name, empty name, empty selections, and no
   board, grade, pending preference flow, match results or selected tutors. *)
C4_AsStated == passed_check /\ asks_reset(req.upd) => reset_done

(* C4, amended: the same, for a FORCE_RESTART callback and for a /start message from a
   chat whose type passes chat_allowed; a /start from any other chat changes nothing. *)
C4_ResetExact ==
  /\ passed_check /\ asks_reset_allowed(req.upd) => reset_done
  /\ passed_check /\ asks_reset(req.upd) /\ ~asks_reset_allowed(req.upd) => SESSIONS = sessions_before

(* a /start that found a session with a name, a board, a selection and a pending
   preference flow, and left the reset session *)
C4_Witness ==
  /\ passed_check /\ req.upd.kind = "message" /\ asks_reset_allowed(req.upd)
  /\ req.before # Nothing
  /\ old_session.selections # <<>> /\ old_session.board_code # Nothing
  /\ old_session.pref_flow.state = "dict"
  /\ reset_done

(* the LPW callback handled last was an accepted answer: a flow was pending *)
lpw_accepted ==
  /\ passed_check /\ req.upd.kind = "callback_query" /\ req.upd.msg # 0
  /\ Len(req.upd.data) >= 2 /\ req.upd.data[1] = "LPW"
  /\ req.before # Nothing /\ old_session.pref_flow.state = "dict"

is_pref(p) == DOMAIN p = {"mode", "lpw"} /\ p.lpw \in {1, 2}

(* the prefs map holds an entry for each of these subjects, and no other *)
prefs_for(prefs, subjects) ==
  DOMAIN prefs = subjects /\ \A x \in subjects : is_pref(prefs[x])

(* a pending flow: it is about the selection added last, i answers were accepted and
   stored for the first i subjects, and at least one subject is still to be answered *)
pending_ok(s, pf) ==
  /\ pf.sel_idx + 1 = Len(s.selections)
  /\ pf.subjects = s.selections[pf.sel_idx + 1].subjects
  /\ pf.i < Len(pf.subjects)
  /\ prefs_for(s.selections[pf.sel_idx + 1].prefs, {pf.subjects[k] : k \in 1..pf.i})

(* what an accepted answer leaves, given the flow pf it found *)
answer_ok(s, pf) ==
  IF pf.i + 1 = Len(pf.subjects)
  THEN /\ s.pref_flow.state = "None" /\ s.stage = "flow"
       /\ prefs_for(s.selections[pf.sel_idx + 1].prefs, Range(pf.subjects))
  ELSE /\ s.pref_flow.state = "dict" /\ s.pref_flow.i = pf.i + 1
       /\ s.pref_flow.subjects = pf.subjects

(* C8: a preference flow over n subjects is cleared by its n-th accepted
   lessons-per-week answer and by no earlier one: every accepted answer adds one to
   the count i, which starts at 0; while i < n the flow stays pending with a prefs
   entry for each of the first i subjects; the answer that makes i = n clears the
   flow, sets the stage to flow and leaves one {mode, lpw} entry per subject. *)
C8_FlowEndsAfterN ==
  /\ \A c \in Chats :
       SESSIONS[c] # Nothing /\ SESSIONS[c][1].pref_flow.state = "dict"
         => pending_ok(SESSIONS[c][1], SESSIONS[c][1].pref_flow)
  /\ lpw_accepted => answer_ok(now_session, old_session.pref_flow)

(* the second accepted answer of a flow over two subjects: flow cleared, stage flow,
   both subjects have their entry *)
C8_Witness ==
  /\ lpw_accepted
  /\ Len(old_session.pref_flow.subjects) = 2 /\ old_session.pref_flow.i = 1
  /\ now_session.pref_flow.state = "None" /\ now_session.stage = "flow"
  /\ Cardinality(DOMAIN now_session.selections[1].prefs) = 2

(* a step that handles a request *)
Handled == nreq' # nreq

(* the calls of a request that are messages or edits of messages *)
is_message(call) == call.method # "answerCallbackQuery"

(* a Done callback with its four fields *)
is_done(upd) ==
  upd.kind = "callback_query" /\ upd.msg # 0 /\ Len(upd.data) = 4 /\ upd.data[1] = "D"

(* the request handled last stored a selection and asked the first lesson type *)
done_applied ==
  /\ passed_check /\ is_done(req.upd)
  /\ \E k \in 1..Len(out) : out[k].text # <<>> /\ out[k].text[1] = "ask_mode"

(* C1: when the Done callback that was just handled is delivered again within
   DONE_TTL seconds, to the process that handled it, the second delivery appends no
   selection, restarts no preference flow and produces no message. *)
C1_DuplicateDoneIgnored ==
  [][done_applied /\ Handled /\ req'.upd = req.upd /\ req'.hdr = req.hdr
     /\ req'.t - req.t < DONE_TTL
       => SESSIONS' = SESSIONS /\ \A k \in 1..Len(out') : ~is_message(out'[k])]_vars

(* the tutor cards among the calls of a request *)
cards(calls) == {k \in 1..Len(calls) : calls[k].text # <<>> /\ calls[k].text[1] = "card"}

(* C2: the tutor cards of a completed selection are sent at most once: when the
   SHOW_ALL callback that just sent them is pressed or delivered again, no card is
   sent a second time. *)
C2_CardsSentOnce ==
  [][passed_check /\ req.upd.kind = "callback_query" /\ req.upd.data = <<"SHOW_ALL">>
     /\ cards(out) # {} /\ Handled /\ req'.upd = req.upd /\ req'.hdr = req.hdr
       => cards(out') = {}]_vars

(* what the user's chat gets from a request *)
to_chat(calls, c) == SelectSeq(calls, LAMBDA x : x.chat = c)

(* pressing button d of a message of chat c, the process holding sessions S *)
press(S, c, d) ==
  handle_webhook(S, secret, req.hdr, Update("callback_query", c, 7, d, "", ""), Plan(0, "ok"))

same_reply(c, lost, kept) == to_chat(lost.calls, c) = to_chat(kept.calls, c)

(* C3: every button the bot has just rendered gives the user the same next step when
   it is pressed after the process lost its sessions as when it is pressed with the
   session intact. *)
C3_ButtonsSelfSufficient ==
  passed_check /\ chat \in Chats
    => \A d \in rendered(out, chat) :
         same_reply(chat, press(NoSessions, chat, d), press(SESSIONS, chat, d))

(* C6: with a secret configured, a POST whose header differs from it is answered 403,
   changes no session and makes no Telegram call; with no secret configured no POST
   is turned away. *)
C6_MismatchRejected ==
  /\ handled /\ secret # "" /\ req.hdr # secret
       => resp.status = 403 /\ SESSIONS = sessions_before /\ out = <<>>
  /\ handled /\ secret = "" => resp.status # 403

(* the request asked this question *)
asks(calls, q) == \E k \in 1..Len(calls) : calls[k].text # <<>> /\ calls[k].text[1] = q

(* the request wrote an entry of some selection's prefs *)
pref_stored(old, new) ==
  /\ Len(new.selections) = Len(old.selections)
  /\ \E k \in 1..Len(new.selections) : new.selections[k].prefs # old.selections[k].prefs

(* C7: while a preference flow is pending, the lessons-per-week question of a subject
   is asked only as the step after its lesson-type question (so once, and in that
   order), and a lessons-per-week answer is stored only for a subject whose
   lessons-per-week question is the one that was asked last (so no question is
   skipped). *)
C7_AskedInOrder ==
  passed_check /\ req.before # Nothing /\ old_session.pref_flow.state = "dict"
    => /\ asks(out, "ask_lpw") => old_session.stage = "ask_mode_per_subject"
       /\ SESSIONS[chat] # Nothing /\ pref_stored(old_session, now_session)
            => old_session.stage = "ask_lpw_per_subject"

(* a T| callback with its five fields, whose codes are the subject menu's *)
is_toggle(upd) ==
  /\ upd.kind = "callback_query" /\ upd.msg # 0
  /\ Len(upd.data) = 5 /\ upd.data[1] = "T" /\ IsInt(upd.data[4])
  /\ upd.data[2] \in DOMAIN CODE_TO_SUBJECT \cup {RESET}
  /\ decode_sel(upd.data[5]) \subseteq DOMAIN CODE_TO_SUBJECT

(* the set with only code's membership flipped; the empty set for the reset action *)
flipped(code, S) == IF code = RESET THEN {} ELSE (S \ {code}) \cup ({code} \ S)

(* segs lists the members of E in ascending order, each once *)
ascending(segs, E) ==
  /\ Range(segs) = E /\ Len(segs) = Cardinality(E)
  /\ \A k \in 1..(Len(segs) - 1) : StrLess(segs[k], segs[k + 1])

(* e is the sorted dot-joined list of the codes of E *)
sorted_join_of(e, E) == IF E = {} THEN e = <<>> ELSE ascending(split(e, "."), E)

(* the buttons of a keyboard that carry the encoded selection: its last field *)
set_buttons(markup) == {d \in Buttons(markup) : d[1] \in {"T", "D"}}

(* the keyboard a T| callback re-rendered, against the set it was sent *)
rerendered_ok(call, code, S) ==
  /\ call.method = "editMessageText"
  /\ {d \in set_buttons(call.markup) : d[1] = "T"} # {}
  /\ \A d \in set_buttons(call.markup) : sorted_join_of(d[Len(d)], flipped(code, S))
  /\ code # RESET =>
       \A d \in set_buttons(call.markup) : d[1] = "T" /\ d[2] = code => toggled(d[2], d[5]) = S

(* C9: handling T|code|board|grade|enc, the codes being the subject menu's, re-renders
   a keyboard whose every T and D button carries decode_sel(enc) with only code's
   membership flipped (the empty set for the reset code) as the sorted dot-joined
   list; pressing the same code on that keyboard gives decode_sel(enc) back; and
   decode_sel(encode_sel(S)) = S. *)
C9_ToggleRendersFlippedSet ==
  /\ passed_check /\ is_toggle(req.upd)
       => Len(out) = 2
          /\ rerendered_ok(out[Len(out)], req.upd.data[2], decode_sel(req.upd.data[5]))
  /\ \A S \in SUBSET ToggleCodes : decode_sel(encode_sel(S)) = S

(* ENL pressed on a rendered keyboard that held AR, CS and ENL: the keyboard now
   carries AR.CS *)
C9_Witness ==
  /\ passed_check
  /\ req.upd.data = <<"T", ENL, "C", "9", join(".", <<AR, CS, ENL>>)>>
  /\ Len(out) = 2
  /\ <<"D", "C", "9", join(".", <<AR, CS>>)>> \in Buttons(out[2].markup)

(* the request handled last sent the WhatsApp link message to its chat *)
link_sent == \E k \in 1..Len(out) : out[k].chat = chat /\ out[k].text # <<>> /\ out[k].text[1] = "wa_link"

(* tutor results were shown to the session since it was reset, and a shown tutor is selected *)
shown_selected(s) ==
  /\ s.last_matches # Nothing
  /\ \E i \in 1..Len(shown_matches(s)) : shown_matches(s)[i].id \in selected_ids(s)

(* C11: a WhatsApp link message is sent to a chat only when, since the chat's last
   reset, tutor results were shown and at least one of the shown tutors is selected;
   a SEND_WA callback in any other situation sends no link. *)
C11_LinkOnlyForShownTutor ==
  passed_check /\ link_sent => req.before # Nothing /\ shown_selected(old_session)

(* a board button press: a B| callback of a message *)
is_board(upd) ==
  upd.kind = "callback_query" /\ upd.msg # 0 /\ Len(upd.data) = 2 /\ upd.data[1] = "B"

(* the screens the request handled last showed in its chat: the keyboards it rendered *)
screens(calls, c) == {calls[k].markup[1] : k \in {j \in 1..Len(calls) : calls[j].chat = c}} \ {"none"}

(* C12: after every board button press, the one that begins an additional selection
   after Add more included, the screen shown next is the grade step; the subject
   multi-select is never what a board press shows. *)
C12_GradeStepAfterBoard ==
  passed_check /\ is_board(req.upd) => screens(out, chat) = {"grade"}

(* a redirect request has been made *)
visited == visit # NoVisit

(* the two parts of a token decode and the second is the HMAC of the first under key *)
mac_ok(key, parts) ==
  /\ Len(parts) = 2
  /\ _b64u_dec(parts[1]).ok /\ _b64u_dec(parts[2]).ok
  /\ _b64u_dec(parts[2]).d = hmac_digest(key, _b64u_dec(parts[1]).d)

(* the request made last verifies under the key: for webhook.py the token carries
   the HMAC of its payload, for api/wa.py sig is the HMAC of t *)
verifies(key) ==
  IF visit.impl = "webhook.py" THEN mac_ok(key, split1(visit.t, "."))
  ELSE visit.sig = hex_sig(key, visit.t)

(* answered 400 or 403, with no redirect and no click logged *)
rejected ==
  /\ answer.status \in {400, 403}
  /\ answer.location = <<>> /\ answer.refresh = <<>> /\ answer.clicks = <<>>

(* C13: with a signing key configured, a redirect request whose token or signature
   does not verify under the key (payload or signature tampered with, signature
   missing, token malformed) is answered 400 or 403, redirects nowhere and logs no
   click, on webhook.py's /api/wa and on api/wa.py alike. *)
C13_UnverifiedRejected ==
  visited /\ WA_SIGNING_SECRET # <<>> /\ ~verifies(WA_SIGNING_SECRET) => rejected

(* the token of the link built last, and the function that verifies a token of its
   kind: unsign_wa_token for a redirect link, verify_deeplink_token for a deep link *)
token == query_arg(link.url)

verify(tok) ==
  IF link.kind = "wa" THEN unsign_wa_token(WA_SIGNING_SECRET, tok)
  ELSE verify_deeplink_token(tok)

(* the bytes the two parts of a token decode to; <<>> for a token without a dot *)
parts_bytes(parts) ==
  IF Len(parts) = 2 THEN <<_b64u_dec(parts[1]), _b64u_dec(parts[2])>> ELSE <<>>

reads_alike(a, b) == parts_bytes(split1(a, ".")) = parts_bytes(split1(b, "."))

(* C14, as stated: unsign_wa_token(sign_wa_token(payload)) = payload, and
   verify_deeplink_token of the token in make_deeplink's URL is the signed payload;
   every token made by altering the payload part or the signature part of a signed
   token verifies to None. *)
C14_AsStated ==
  link # NoLink =>
    /\ verify(token) = link.payload
    /\ \A alt \in AlteredTokens(token) : verify(alt) = JNull

(* C14, amended: the round trip as stated; an altered token verifies to None when
   one of its parts decodes to other bytes than the signed token's part, or to none;
   an alteration the decoder reads as the same bytes verifies to the payload. *)
C14_RoundTrip ==
  link # NoLink =>
    /\ verify(token) = link.payload
    /\ \A alt \in AlteredTokens(token) :
         verify(alt) = IF reads_alike(alt, token) THEN link.payload ELSE JNull

(* a redirect link signed under a configured key with a text to prefill: its token
   verifies to the payload, the token with another payload in front of the same
   signature verifies to None *)
C14_Witness ==
  /\ link.kind = "wa" /\ WA_SIGNING_SECRET # <<>>
  /\ get(link.payload, <<"t", "e", "x", "t">>) # JStr(<<>>)
  /\ unsign_wa_token(WA_SIGNING_SECRET, token) = link.payload
  /\ other_raw \o <<".">> \o sig_part(token) \in AlteredTokens(token)
  /\ unsign_wa_token(WA_SIGNING_SECRET, other_raw \o <<".">> \o sig_part(token)) = JNull

(* the redirect request made last was accepted: it got no error response *)
accepted == visited /\ answer.status \notin {400, 403, 500}

(* the payload the accepted token carries *)
payload_part == IF visit.impl = "webhook.py" THEN split1(visit.t, ".")[1] ELSE visit.t

token_data == loads_bytes(_b64u_dec(payload_part).d).v

(* percent-decoding: "%" and two hexadecimal digits stand for the character *)
escape_at(s, i) == i + 2 <= Len(s) /\ s[i] = "%" /\ int16(SubSeq(s, i + 1, i + 2)) \in 32..126

in_escape(s, i) == (i > 1 /\ escape_at(s, i - 1)) \/ (i > 2 /\ escape_at(s, i - 2))

unquoted(s) ==
  Flatten([i \in 1..Len(s) |->
             IF in_escape(s, i) THEN <<>>
             ELSE IF escape_at(s, i) THEN <<Printable[int16(SubSeq(s, i + 1, i + 2)) - 31]>>
             ELSE <<s[i]>>])

(* the value of the first query parameter of a URL: from its "=" to the next "&" or
   "#", or to the end *)
value_end(s) ==
  IF \E i \in 1..Len(s) : s[i] \in {"&", "#"}
  THEN (CHOOSE i \in 1..Len(s) : s[i] \in {"&", "#"} /\ \A k \in 1..(i - 1) : s[k] \notin {"&", "#"}) - 1
  ELSE Len(s)

first_value(url) == SubSeq(query_arg(url), 1, value_end(query_arg(url)))

(* url is https://wa.me/<wa>?text=<text, URL-encoded> *)
wa_target(url, wa, text) ==
  /\ SubSeq(url, 1, find(url, "=", 1)) = wa_me(wa, <<>>)
  /\ unquoted(first_value(url)) = text

(* C15: for every token the redirect endpoint accepts, the response is an HTTP 302
   whose target is https://wa.me/<digits of the token's wa field, or the portal's
   default number when that is empty>?text=<the token's text, URL-encoded>, on
   webhook.py's /api/wa and on api/wa.py alike. *)
C15_RedirectsToWhatsApp ==
  accepted =>
    /\ answer.status = 302
    /\ wa_target(answer.location, wa_of(get(token_data, <<"w", "a">>)),
                 str_or_empty(get(token_data, <<"t", "e", "x", "t">>))[2])

(* the redirect request made last carries no signature: no sig parameter for
   api/wa.py, no signature part in the token for webhook.py *)
unsigned ==
  IF visit.impl = "webhook.py"
  THEN Len(split1(visit.t, ".")) = 1 \/ split1(visit.t, ".")[2] = <<>>
  ELSE visit.sig = <<>>

(* its payload decodes: base64 of the JSON text of an object *)
payload_decodes ==
  /\ _b64u_dec(payload_part).ok
  /\ loads_bytes(_b64u_dec(payload_part).d).ok
  /\ token_data[1] = "dict"

(* the request was sent on to WhatsApp *)
redirected ==
  /\ answer.status \in {200, 302}
  /\ answer.location \o answer.refresh # <<>>

(* C16: with no signing key configured, a redirect request that carries a decodable
   payload and no signature is taken as valid and redirected, on webhook.py's
   /api/wa and on api/wa.py alike. *)
C16_UnsignedAcceptedWithoutKey ==
  visited /\ WA_SIGNING_SECRET = <<>> /\ unsigned /\ payload_decodes => redirected

(* the longest a redirect token may be used after the ts it was issued with, in seconds *)
TokenLifetime == 3600

(* the ts the accepted token was issued with *)
issued_at == get(token_data, <<"t", "s">>)[2]

(* C17: redirect tokens are short-lived: a correctly signed token is accepted by the
   redirect endpoint only within a bounded time after the ts it was issued with,
   and is rejected once that lifetime has passed. *)
C17_TokenExpires ==
  accepted /\ verifies(WA_SIGNING_SECRET) /\ get(token_data, <<"t", "s">>)[1] = "int"
    => visit.at - issued_at <= TokenLifetime

(* C18: in every reachable state, the callback_data of every button the bot renders
   is at most 64 bytes long, for every subject set a user can accumulate by toggling
   menu subjects and for every tutor id of the catalog. *)
C18_CallbackDataFits ==
  \A k \in 1..Len(out) : \A d \in Buttons(out[k].markup) : callback_len(d) <= 64

(* C19: for every tutor t and every subject label s given to match_teachers, t is in
   the result only if canonical_subject(s) is not None and is a member of t's
   precomputed canonical subject set. *)
C19_SubjectFilter ==
  returned /\ args.subject # <<>> =>
    \A i \in 1..Len(ret.results) :
      /\ canonical_subject(args.subject) # NoSubject
      /\ canonical_subject(args.subject) \in _subjects_canon(ret.results[i])

(* a call with a subject that returns a tutor while the catalog holds another tutor,
   of the grade and board asked for, whose canonical subject set lacks the subject *)
C19_Witness ==
  /\ returned
  /\ args.subject # <<>>
  /\ ret.results # <<>>
  /\ \E i \in 1..Len(TEACHERS) :
       /\ canonical_subject(args.subject) \notin _subjects_canon(TEACHERS[i])
       /\ teacher_ok(TEACHERS[i], <<>>, args.grade,
                     IF args.board # <<>> THEN canonical_board(args.board) ELSE <<>>)

(* C20: whenever at least one tutor passes the subject filter of a call, the call
   returns a non-empty list, even if no such tutor teaches the grade or the board
   asked for: an empty result means the subject filter eliminated every tutor. *)
C20_FallbackOnGradeOrBoard ==
  returned /\ args.subject # <<>> /\ subject_candidates(args.subject) # <<>> =>
    ret.results # <<>>

(* the tutors whose precomputed canonical subjects hold the canonical form of a label *)
teaching(subject) ==
  {i \in 1..Len(TEACHERS) :
     /\ canonical_subject(subject) # NoSubject
     /\ canonical_subject(subject) \in _subjects_canon(TEACHERS[i])}

subject_only == returned /\ args.subject # <<>> /\ args.grade = NoGrade /\ args.board = <<>>

(* C21: when match_teachers is given a subject without grade or board and some tutor's
   canonical subjects contain the subject's canonical form, it returns a non-empty list
   of at most limit tutors, each of them one of those tutors. *)
C21_SubjectOnlyNonEmpty ==
  subject_only /\ teaching(args.subject) # {} =>
    /\ ret.results # <<>>
    /\ Len(ret.results) <= args.limit
    /\ \A j \in 1..Len(ret.results) : \E i \in teaching(args.subject) : ret.results[j] = TEACHERS[i]

(* a subject-only call for a subject more tutors teach than the limit lets through *)
C21_Witness ==
  /\ subject_only
  /\ Cardinality(teaching(args.subject)) > args.limit
  /\ Len(ret.results) = args.limit

(* tutor i of the catalog comes before tutor j by lower-cased name, tutors of equal
   lower-cased name by their place in the catalog *)
name_before(i, j) ==
  \/ StrLess(lower(TEACHERS[i].name), lower(TEACHERS[j].name))
  \/ lower(TEACHERS[i].name) = lower(TEACHERS[j].name) /\ i < j

(* the tutor of a set that has n of the set before it *)
nth_by_name(is, n) == CHOOSE i \in is : Cardinality({x \in is : name_before(x, i)}) = n

nth_in_catalog(is, n) == CHOOSE i \in is : Cardinality({x \in is : x < i}) = n

shorter(n, m) == IF n < m THEN n ELSE m

(* the claim as stated: the first limit subject-matching tutors in catalog order *)
C22_AsStated ==
  subject_only =>
    /\ Len(ret.results) = shorter(args.limit, Cardinality(teaching(args.subject)))
    /\ \A j \in 1..Len(ret.results) :
         ret.results[j] = TEACHERS[nth_in_catalog(teaching(args.subject), j - 1)]

(* C22: when match_teachers is called with a subject only, the tutors it returns are the
   first limit subject-matching tutors in ascending order of lower-cased name, tutors of
   equal lower-cased name in the order they appear in the catalog. *)
C22_RankedByName ==
  subject_only =>
    /\ Len(ret.results) = shorter(args.limit, Cardinality(teaching(args.subject)))
    /\ \A j \in 1..Len(ret.results) :
         ret.results[j] = TEACHERS[nth_by_name(teaching(args.subject), j - 1)]

(* a subject-only call that returns a tutor ahead of one the catalog lists earlier, and
   two tutors of equal lower-cased name in catalog order *)
C22_Witness ==
  /\ subject_only
  /\ \E j \in 1..(Len(ret.results) - 1) :
       lower(ret.results[j].name) = lower(ret.results[j + 1].name)
  /\ \E j \in 1..Len(ret.results) :
       nth_by_name(teaching(args.subject), j - 1) # nth_in_catalog(teaching(args.subject), j - 1)

collected == ret.done /\ ret.fn = "collect_best_matches"

(* C23: for every list of requested subjects, grade, board and k, collect_best_matches
   returns no tutor twice, tutors being told apart by id, or by name when the id is
   absent, even when a tutor matches several of the requested subjects. *)
C23_NoTutorTwice ==
  collected =>
    \A i, j \in 1..Len(ret.results) :
      i # j => teacher_key(ret.results[i]) # teacher_key(ret.results[j])

(* a call whose subjects are matched more than once by a tutor it returns *)
C23_Witness ==
  /\ collected
  /\ \E a, b \in 1..Len(args.subjects) : \E j \in 1..Len(ret.results) :
       /\ a < b
       /\ \E x \in 1..Len(match_teachers(args.subjects[a], args.grade, args.board, 3).results) :
            match_teachers(args.subjects[a], args.grade, args.board, 3).results[x] = ret.results[j]
       /\ \E x \in 1..Len(match_teachers(args.subjects[b], args.grade, args.board, 3).results) :
            match_teachers(args.subjects[b], args.grade, args.board, 3).results[x] = ret.results[j]
       /\ Len(ret.results) < args.limit

canonical_called == ret.done /\ ret.fn = "canonical_subject"

(* the name canonical_subject returns for entry e of VALID_SUBJECTS *)
name_of(e) == _nice_subject_name(lower_atoms(VALID_SUBJECTS[e].canonical))

(* C24: for every alias a listed under entry c of VALID_SUBJECTS, canonical_subject(a)
   is the canonical name of c, not that of an entry declared earlier; and
   canonical_subject of a canonical name it returns is that same name. *)
C24_AliasCompleteIdempotent ==
  canonical_called =>
    /\ \A e \in 1..Len(VALID_SUBJECTS) :
         args.subject \in Range(VALID_SUBJECTS[e].aliases) => ret.value = name_of(e)
    /\ args.subject \in NiceNames => ret.value = args.subject

board_called == ret.done /\ ret.fn = "canonical_board"

(* the aliases of the three known boards, as the lower-cased labels *)
BoardAliases ==
  [b \in {<<"cambridge">>, <<"edexcel">>, <<"oxfordaqa">>} |->
     CASE b = <<"cambridge">> -> {<<"c">>, <<"cambridge">>}
       [] b = <<"edexcel">> -> {<<"e">>, <<"edexcel">>, <<"pearson", " ", "edexcel">>, <<"pearson">>}
       [] b = <<"oxfordaqa">> -> {<<"o">>, <<"oxford">>, <<"oxfordaqa">>, <<"oxford", " ", "aqa">>}]

(* the label is an alias of a known board, whatever its case and spacing *)
recognized(label) == \E b \in DOMAIN BoardAliases : _norm(label) \in BoardAliases[b]

alias_mapped ==
  \A b \in DOMAIN BoardAliases : _norm(args.board) \in BoardAliases[b] => ret.value = b

(* the claim as stated: an unrecognized label gives its lower-cased input *)
C25_AsStated ==
  board_called =>
    /\ alias_mapped
    /\ ~recognized(args.board) => ret.value = lower_atoms(args.board)
    /\ canonical_board(ret.value) = ret.value

(* C25: canonical_board maps every alias of the three known boards to exactly one of
   cambridge, edexcel, oxfordaqa; maps any unrecognized label to its input lower-cased,
   with the whitespace at its ends removed and each inner run of whitespace made one
   space, never to None; and is idempotent. *)
C25_BoardPassthrough ==
  board_called =>
    /\ alias_mapped
    /\ ~recognized(args.board) => ret.value = _norm(args.board)
    /\ (~recognized(args.board) /\ (\E i \in 1..Len(args.board) : args.board[i] # " "))
         => ret.value # <<>>
    /\ canonical_board(ret.value) = ret.value

(* an unknown board written with a run of spaces inside, passed through *)
C25_Witness ==
  /\ board_called
  /\ ~recognized(args.board)
  /\ ret.value = <<"unknown", " ", "board">>
  /\ lower_atoms(args.board) # ret.value

(* a step that handles a webhook update *)
handled_step == nreq' = nreq + 1

(* C26: sessions are isolated per chat: handling a webhook update for chat A leaves the
   session and the duplicate-suppression records of every other chat B unchanged. *)
C26_ChatIsolation ==
  [][handled_step =>
       \A b \in Chats :
         b # req'.upd.chat => SESSIONS'[b] = SESSIONS[b] /\ RECENT_DONE'[b] = RECENT_DONE[b]]_vars

(* chat 2 holds a session while an update of chat 1 has changed the session of chat 1 *)
C26_Witness ==
  /\ req.upd.chat = 1
  /\ passed_check
  /\ SESSIONS[2] # Nothing
  /\ SESSIONS[1] # Nothing
  /\ SESSIONS[1] # req.before
  /\ SESSIONS[1] # SESSIONS[2]

(* the chat's session when the request arrived, as session(chat_id) would read it *)
session_before == IF req.before = Nothing THEN SessionDict("idle") ELSE old_session

(* a typed text other than /start, from a chat the bot serves *)
typed_text ==
  /\ passed_check
  /\ req.upd.kind = "message"
  /\ req.upd.ctype # "" /\ chat_allowed(req.upd.ctype)
  /\ ~is_start(strip(req.upd.text))

name_given == session_before.stage = "ask_name" /\ strip(req.upd.text) # ""

(* C27: a typed text message other than /start changes the session only when the chat's
   stage is ask_name and the trimmed text is non-empty: then name becomes the text and
   stage becomes flow.  Otherwise name, stage, selections and any pending preference
   flow stay as they were and the bot only sends the board keyboard again. *)
C27_TextOnlyNamesTheStudent ==
  typed_text =>
    /\ SESSIONS[chat] # Nothing
    /\ name_given =>
         now_session = [session_before EXCEPT !.name = strip(req.upd.text), !.stage = "flow"]
    /\ ~name_given =>
         /\ now_session = session_before
         /\ out = <<Send(chat, <<"use_the_options">>, <<"board">>)>>

(* a text typed while the preference questions are pending, which changes nothing *)
C27_Witness ==
  /\ typed_text
  /\ req.upd.text = " Ann "
  /\ session_before.pref_flow.state = "dict"
  /\ session_before.selections # <<>>
  /\ now_session = session_before

(* the call made last, and the calls before it *)
last_call == history[Len(history)]

(* an earlier call accepted the signature of the last call for its chat less than
   the last call's ttl before it *)
accepted_lately ==
  \E j \in 1..(Len(history) - 1) :
    /\ history[j].chat = last_call.chat
    /\ history[j].sig = last_call.sig
    /\ history[j].value = FALSE
    /\ last_call.t - history[j].t < last_call.ttl

(* the records of the last call's chat are all younger than its ttl *)
expired_dropped ==
  \A i \in 1..Len(RECENT_DONE[last_call.chat]) :
    last_call.t - RECENT_DONE[last_call.chat][i][2] < last_call.ttl

(* the claim as stated: whatever ttl each call of the chat passes *)
C28_AsStated ==
  history # <<>> => (last_call.value = accepted_lately) /\ expired_dropped

(* every call made so far for the last call's chat passed the same ttl *)
same_ttl ==
  \A j \in 1..Len(history) : history[j].chat = last_call.chat => history[j].ttl = last_call.ttl

(* C28: when every call for a chat passes the same ttl, already_done(chat, signature,
   ttl) returns True exactly when the same signature was accepted (returned False) for
   the chat less than ttl seconds earlier; a suppressed duplicate does not refresh the
   record, so a signature accepted at t0 is accepted again at the first call at or
   after t0 + ttl; and every call drops the expired records. *)
C28_SuppressedWithinTtl ==
  history # <<>> /\ same_ttl => (last_call.value = accepted_lately) /\ expired_dropped

(* a signature accepted, suppressed within the ttl, and accepted again once the ttl
   of its first acceptance has passed, the duplicate notwithstanding *)
C28_Witness ==
  /\ Len(history) >= 3
  /\ same_ttl
  /\ \E i, j \in 1..(Len(history) - 1) :
       /\ i < j
       /\ history[i].chat = last_call.chat /\ history[i].sig = last_call.sig
       /\ history[j].chat = last_call.chat /\ history[j].sig = last_call.sig
       /\ history[i].value = FALSE
       /\ history[j].value = TRUE
       /\ last_call.t - history[j].t < last_call.ttl
       /\ last_call.t - history[i].t >= last_call.ttl
  /\ last_call.value = FALSE

(* a Done callback that cannot form a selection: too few fields, a grade that is no
   integer, no subject code, or a code CODE_TO_SUBJECT lacks *)
invalid_done(upd) ==
  /\ upd.kind = "callback_query" /\ upd.msg # 0
  /\ Len(upd.data) >= 2 /\ upd.data[1] = "D"
  /\ \/ Len(upd.data) < 4
     \/ ~IsInt(upd.data[3])
     \/ decode_sel(upd.data[4]) = {}
     \/ \E c \in decode_sel(upd.data[4]) : c \notin DOMAIN CODE_TO_SUBJECT

(* C29: a Done callback that cannot form a valid selection (empty subject set, a code
   not in CODE_TO_SUBJECT, a non-integer grade, too few fields) appends nothing to the
   chat's selections, leaves stage and any pending preference flow unchanged, and is
   answered 200. *)
C29_InvalidDoneChangesNothing ==
  passed_check /\ invalid_done(req.upd) =>
    /\ selections_of(SESSIONS, chat) = session_before.selections
    /\ SESSIONS[chat] # Nothing =>
         /\ now_session.stage = session_before.stage
         /\ now_session.pref_flow = session_before.pref_flow
    /\ resp.status = 200

(* an invalid Done sent while the preference questions of a stored selection are pending *)
C29_Witness ==
  /\ passed_check /\ invalid_done(req.upd)
  /\ Len(req.upd.data) = 4 /\ req.upd.data[4] = UnknownCode
  /\ session_before.pref_flow.state = "dict"
  /\ session_before.selections # <<>>
  /\ resp.status = 200

(* the chats whose session holds a pending preference flow *)
flow_pending(c) == SESSIONS[c] # Nothing /\ SESSIONS[c][1].pref_flow.state = "dict"

flow_in_range(s, pf) ==
  /\ 0 <= pf.i /\ pf.i < Len(pf.subjects)
  /\ 0 <= pf.sel_idx /\ pf.sel_idx < Len(s.selections)
  /\ s.selections[pf.sel_idx + 1].subjects = pf.subjects

(* C30: in every reachable state in which a chat has a pending preference flow, the
   flow's index i satisfies 0 <= i < number of subjects of the flow, its sel_idx is the
   index of an entry of the chat's selections, and the flow's subject list is that
   entry's subject list; so the MODE and LPW handlers never index out of range. *)
C30_FlowIndexesInRange ==
  \A c \in Chats : flow_pending(c) => flow_in_range(SESSIONS[c][1], SESSIONS[c][1].pref_flow)

(* a flow pending on the second subject of a second selection *)
C30_Witness ==
  \E c \in Chats :
    /\ flow_pending(c)
    /\ SESSIONS[c][1].pref_flow.i >= 1
    /\ SESSIONS[c][1].pref_flow.sel_idx >= 1

-----------------------------------------------------------------------------
(***************************************************************************)
(* Stored preferences, tutor cards, links, toggles, matcher criteria and   *)
(* menu codes                                                              *)
(***************************************************************************)
(* the lesson types the keyboard of the lesson-type question offers *)
OfferedModes == {d[2] : d \in {x \in kb_mode : x[1] = "MODE"}}

(* the selections a chat's session stores *)
stored(c) == selections_of(SESSIONS, c)

(* C31: under any sequence of callbacks whose payloads the bot itself rendered,
   pressed or delivered again included, every preference stored in a selection has
   one of the two offered lesson types as its mode (so never an unset mode) and 1 or
   2 as its lessons per week. *)
C31_PrefsComplete ==
  \A c \in Chats : \A k \in 1..Len(stored(c)) :
    \A subj \in DOMAIN stored(c)[k].prefs :
      /\ stored(c)[k].prefs[subj].mode \in OfferedModes
      /\ stored(c)[k].prefs[subj].lpw \in {1, 2}

(* the request handled last was a Show tutors press that sent tutor cards *)
cards_sent ==
  /\ passed_check /\ req.upd.kind = "callback_query" /\ req.upd.data = <<"SHOW_ALL">>
  /\ cards(out) # {}

(* the selection holds a preference for each of its subjects *)
prefs_recorded(sel) == \A subj \in Range(sel.subjects) : subj \in DOMAIN sel.prefs

(* C32: whenever tutor cards are sent for a chat, every selection its session stores
   has a recorded preference for each of its subjects and no preference flow is
   pending. *)
C32_CardsAfterPrefs ==
  cards_sent
    => /\ \A k \in 1..Len(stored(chat)) : prefs_recorded(stored(chat)[k])
       /\ now_session.pref_flow.state # "dict"

(* the redirect request a browser makes when the link built last is opened: the t of
   the link's query string and no sig *)
link_opened ==
  /\ visited /\ link.kind = "wa"
  /\ visit.t = query_arg(link.url) /\ visit.sig = <<>>

(* where a response sends the browser: the Location header or the page's refresh *)
destination(a) == a.location \o a.refresh

(* the response accepts the request and sends the browser on *)
sent_on(a) == a.status \in {200, 302} /\ destination(a) # <<>>

(* two addresses of wa.me with the same number and the same prefilled text *)
same_destination(u, v) ==
  /\ SubSeq(u, 1, find(u, "=", 1)) = SubSeq(v, 1, find(v, "=", 1))
  /\ unquoted(first_value(u)) = unquoted(first_value(v))

(* what the two implementations answer to one request *)
agree(a, b) ==
  /\ sent_on(a) <=> sent_on(b)
  /\ sent_on(a) => same_destination(destination(a), destination(b))

(* C33: every link build_wa_redirect_link produces is accepted by the redirect
   endpoint serving /api/wa and leads to the WhatsApp number and the prefilled text
   it was built with; wa_redirect of webhook.py and wa_redirect of api/wa.py accept
   the same requests and give them the same destination. *)
C33_LinkLeadsToWhatsApp ==
  /\ link_opened
       => /\ sent_on(answer)
          /\ wa_target(destination(answer), wa_of(get(link.payload, <<"w", "a">>)),
                       get(link.payload, <<"t", "e", "x", "t">>)[2])
  /\ visited
       => agree(wa_redirect(WA_SIGNING_SECRET, visit.t),
                wa_py_redirect(WA_SIGNING_SECRET, visit.t, visit.sig))

(* the request handled last was a subject toggle or reset callback *)
toggle_pressed ==
  /\ passed_check /\ req.upd.kind = "callback_query" /\ req.upd.msg # 0
  /\ Len(req.upd.data) >= 2 /\ req.upd.data[1] = "T"

(* what the bot sends for the same callback when the process holds no session at all *)
reply_without_session ==
  handle_webhook(NoSessions, secret, req.hdr, req.upd, Plan(0, req.tg)).calls

(* C34: a subject toggle or reset callback (T|...) neither reads nor modifies the
   chat's session: what is shown afterwards is a function of the callback's payload
   alone (the same as with no session), and the session, with its stored board,
   grade and selections, is as it was. *)
C34_ToggleLeavesSession ==
  toggle_pressed => SESSIONS = sessions_before /\ out = reply_without_session

(* a subject ticked on an earlier menu while the session holds a selection and a
   pending preference flow: the menu is rendered with the subject ticked *)
C34_Witness ==
  /\ toggle_pressed
  /\ req.upd.data = <<"T", ENL, "C", "9", <<>>>>
  /\ req.before # Nothing /\ Len(old_session.selections) = 1
  /\ old_session.pref_flow.state = "dict"
  /\ Len(out) = 2
  /\ <<"D", "C", "9", ENL>> \in Buttons(out[2].markup)

(* the call names a board: a label that is not blank, so that its canonical form is
   not empty *)
board_given == args.board # <<>> /\ canonical_board(args.board) # <<>>

(* tutor t meets every criterion the call supplies *)
meets_criteria(t) ==
  /\ args.subject # <<>>
       => /\ canonical_subject(args.subject) # NoSubject
          /\ canonical_subject(args.subject) \in _subjects_canon(t)
  /\ args.grade # NoGrade => args.grade \in t.grades
  /\ board_given => canonical_board(args.board) \in _boards_canon(t)

(* C35: every tutor match_teachers(subject, grade, board) returns satisfies all the
   supplied criteria at once: it teaches the subject, the requested grade is among
   its grades when a grade is given, and the canonical form of the requested board
   is among its canonical boards when a board is given; the result is in ascending
   case-insensitive order of name and has at most limit entries. *)
C35_AllCriteriaAtOnce ==
  returned =>
    /\ \A i \in 1..Len(ret.results) : meets_criteria(ret.results[i])
    /\ \A i \in 1..(Len(ret.results) - 1) :
         ~StrLess(lower(ret.results[i + 1].name), lower(ret.results[i].name))
    /\ Len(ret.results) <= args.limit

(* a call with subject, grade and board that returns fewer tutors than the limit
   allows and leaves out a tutor of the subject and the grade, who lacks the board *)
C35_Witness ==
  /\ returned
  /\ args.subject # <<>> /\ args.grade # NoGrade /\ board_given
  /\ ret.results # <<>> /\ Len(ret.results) < args.limit
  /\ \E i \in 1..Len(TEACHERS) :
       /\ TEACHERS[i] \notin Range(ret.results)
       /\ canonical_subject(args.subject) \in _subjects_canon(TEACHERS[i])
       /\ args.grade \in TEACHERS[i].grades

(* the subject codes the menu offers *)
offered_codes == {MenuItems[i].code : i \in 1..Len(MenuItems)}

(* the offered codes whose CODE_TO_SUBJECT label is the label of the call *)
codes_of_call == {c \in offered_codes : CODE_TO_SUBJECT[c] = args.subject}

(* C36: every subject code the menu offers maps through CODE_TO_SUBJECT to a label
   whose canonical_subject is not None, and two different menu codes never resolve
   to the same canonical subject, so that choosing one menu subject never matches
   the tutors of another. *)
C36_MenuCodesApart ==
  canonical_called /\ codes_of_call # {} =>
    /\ ret.value # NoSubject
    /\ \A c \in codes_of_call : \A d \in offered_codes \ {c} :
         canonical_subject(CODE_TO_SUBJECT[d]) # ret.value

=============================================================================
